---- MODULE Spec2Model ----
(***************************************************************************)
(* Model of the forged-lro cryptographic core: the append-only ledger      *)
(* (package ledger), the deterministic Merkle tree (package merkle), the   *)
(* Ed25519 signing layer (package sign), the rotation-policy validator     *)
(* (package policy) and the browser-side verifier (verifier.ts).           *)
(*                                                                         *)
(* SHA-256 is modelled as a collision-free pairing: the digest of          *)
(* left||right is the term <<"node", left, right>> and a leaf digest is    *)
(* the term <<"leaf", k>>.  Ed25519 is modelled as an ideal signature: a   *)
(* signature verifies exactly under the key and message it was made with.  *)
(* Instants are integers (nanoseconds), the zero time.Time is 0 and the    *)
(* wall clock starts at 1.                                                 *)
(***************************************************************************)
EXTENDS Integers, Sequences, FiniteSets, TLC

VARIABLES
    \* ---- package merkle: one build / tamper / verify experiment ----
    leaves,        \* the ordered leaf sequence handed to BuildProof
    index,         \* the index handed to BuildProof (0-based, as in the code)
    built,         \* [proof, root, err] returned by BuildProof, and BuildRoot's result
    vLeaf,         \* arguments of the VerifyProof call
    vIndex,
    vTotal,
    vProof,
    vRoot,
    edits,         \* number of arguments changed since BuildProof (at most one)
    verdict,       \* [ok, err] returned by VerifyProof
    mpc            \* position of the experiment: "start", "built", "verified", "off"

mvars == <<leaves, index, built, vLeaf, vIndex, vTotal, vProof, vRoot, edits, verdict, mpc>>

VARIABLES
    \* ---- package ledger ----
    file,          \* content of the ledger file: the sequence of chunks written
    exists,        \* whether the ledger file exists
    now,           \* the wall clock read by time.Now()
    faults,        \* number of I/O failures the environment has injected
    calls,         \* number of API calls made by the sequential caller
    last,          \* the last API call of the sequential caller and its result
    ledgerMutex,   \* 0 when free, else the thread that holds it
    tpc,           \* per thread: position inside its call
    tentry,        \* per thread: the entry built before appendEntry (while
                   \* AppendSeal scans: its manifest and lastSealTS)
    tret           \* per thread: the errors returned by its finished calls

lvars == <<file, exists, now, faults>>
svars == <<calls, last>>
cvars == <<ledgerMutex, tpc, tentry, tret>>

VARIABLES
    \* ---- package sign: one sign / verify experiment ----
    sHash,         \* arguments of the SignHashHex call
    sSeed,
    signed,        \* [sig, pub, err] returned by SignHashHex
    kHash,         \* arguments of the VerifyHashHex call
    kSig,
    kPub,
    checked,       \* [ok, err] returned by VerifyHashHex
    spc,           \* position of the experiment: "start", "signed", "checked", "off"
    derived        \* the results of the DeriveKeyPairFromSeedHex calls made

gvars == <<sHash, sSeed, signed, kHash, kSig, kPub, checked, spc, derived>>

VARIABLES
    \* ---- package policy: one validation of a loaded policy ----
    policy,        \* the RotationPolicy handed to ValidateInvariants
    audit,         \* the error it returns
    ppc,           \* "start", "validated", "off"; inside the rva-rotate
                   \* command: "main", "loaded", "checked", "exited"
    policyFile,    \* the policy file the rva-rotate command finds on disk
    stderr,        \* the verdict and failure lines the command has logged
    exitCode       \* its exit status (-1 while it runs or was not started)

pvars == <<policy, audit, ppc, policyFile, stderr, exitCode>>

VARIABLES
    \* ---- the browser-side verifier: one certificate pasted and verified ----
    cert,          \* the certificate payload
    report,        \* [thrown, isValid, computedRoot, expectedRoot]
    opc            \* "start", "verified", "off"

bvars == <<cert, report, opc>>

ovars == <<gvars, pvars, bvars>>

vars == <<mvars, lvars, svars, cvars, ovars>>

(***************************************************************************)
(* Bounds                                                                  *)
(***************************************************************************)
MaxLeaves == 5      \* longest leaf sequence
NumLeafVals == 2    \* number of distinct leaf digests
MaxClock == 2       \* last instant the wall clock reaches
MaxCalls == 3       \* API calls made by the sequential caller
MaxFaults == 1      \* I/O failures injected in one run
NumThreads == 2     \* concurrent appenders
CallsPerThread == 1 \* AppendRegister calls made by each appender
NumSeeds == 2       \* number of distinct signing seeds
MaxSteps == 2       \* longest proof of a pasted certificate
MaxLines == 3       \* longest ledger file found on disk by a reader
MaxForgeLeaves == 3 \* longest leaf sequence and largest totalLeaves a forger tries

(***************************************************************************)
(* Hex strings and byte strings                                            *)
(*                                                                         *)
(* A hex string is a term: <<"leaf", k>>, <<"node", l, r>>, <<"rva", l, r>>,*)
(* <<"seed", k>> and <<"pub", s>> are 64 lowercase hex characters,         *)
(* <<"sig", ...>> and <<"priv", s>> are 128 lowercase hex characters,      *)
(* <<"upper", h>> is h with its hex letters in upper case, <<"empty">> is  *)
(* the empty string and <<"bad">> a string holding a character that is not *)
(* a hex digit.  The bytes a hex string decodes to are <<"bytes", h>> with *)
(* h the lowercase hex string of those bytes.                              *)
(***************************************************************************)
Upper(h) == <<"upper", h>>
EmptyString == <<"empty">>

\* strings.ToLower / String.prototype.toLowerCase on a hex string
ToLower(h) == IF h[1] = "upper" THEN h[2] ELSE h

\* every character is a hex digit of either case
IsHex(h) == h[1] # "bad"

\* number of characters of a hex string
HexLength(h) ==
    IF ToLower(h)[1] \in {"sig", "priv"} THEN 128
    ELSE IF ToLower(h)[1] = "empty" THEN 0
    ELSE 64

\* regexp ^[a-f0-9]{n}$
LowerHex(h, n) == IsHex(h) /\ h[1] # "upper" /\ HexLength(h) = n

\* hex.DecodeString and hex.EncodeToString
DecodeString(h) == [failed |-> ~IsHex(h), bytes |-> <<"bytes", ToLower(h)>>]
EncodeToString(b) == b[2]
ByteLen(b) == HexLength(b[2]) \div 2

(***************************************************************************)
(* package merkle                                                          *)
(***************************************************************************)
ErrNil == "nil"
ErrEmptyLeaves == "ErrEmptyLeaves"
ErrInvalidLeafFormat == "ErrInvalidLeafFormat"
ErrInvalidIndex == "ErrInvalidIndex"
ErrInvalidProof == "ErrInvalidProof"
ErrInvalidTotalLeaves == "ErrInvalidTotalLeaves"

LeafHash(k) == <<"leaf", k>>
BadHex == <<"bad">>

\* hashPattern.MatchString
hashPattern(h) == LowerHex(h, 64)

\* hashPair: SHA-256 of the decoded left bytes followed by the decoded right
\* bytes.  Both arguments have passed hashPattern wherever it is called, so
\* the two decode errors cannot occur.
hashPair(leftHex, rightHex) == <<"node", leftHex, rightHex>>

ProofNode(h, p) == [hash |-> h, position |-> p]

\* Variant of NextLevel: an unpaired last node is promoted unhashed instead of
\* being paired with itself.
RECURSIVE NextLevelPromote(_, _)
NextLevelPromote(currentLevel, i) ==
    IF i >= Len(currentLevel) THEN <<>>
    ELSE IF i + 1 < Len(currentLevel)
         THEN <<hashPair(currentLevel[i + 1], currentLevel[i + 2])>>
              \o NextLevelPromote(currentLevel, i + 2)
    ELSE <<currentLevel[i + 1]>>

\* The inner for-loop of BuildRoot / BuildProof from pair start i: the parents
\* appended to nextLevel.
RECURSIVE NextLevel(_, _)
NextLevel(currentLevel, i) ==
    IF i >= Len(currentLevel) THEN <<>>
    ELSE LET left == currentLevel[i + 1]
             right == IF i + 1 < Len(currentLevel) THEN currentLevel[i + 2] ELSE left
         IN <<hashPair(left, right)>> \o NextLevel(currentLevel, i + 2)

RECURSIVE RootLoop(_)
RootLoop(currentLevel) ==
    IF Len(currentLevel) > 1 THEN RootLoop(NextLevel(currentLevel, 0))
    ELSE currentLevel[1]

BuildRoot(lvs) ==
    IF Len(lvs) = 0 THEN [root |-> BadHex, err |-> ErrEmptyLeaves]
    ELSE IF \E i \in 1..Len(lvs) : ~hashPattern(lvs[i])
         THEN [root |-> BadHex, err |-> ErrInvalidLeafFormat]
    ELSE IF Len(lvs) = 1 THEN [root |-> lvs[1], err |-> ErrNil]
    ELSE [root |-> RootLoop(lvs), err |-> ErrNil]

\* Variant of LevelSteps: no step is recorded for a node that has no sibling.
RECURSIVE LevelStepsSkipUnpaired(_, _, _)
LevelStepsSkipUnpaired(currentLevel, currentIndex, i) ==
    IF i >= Len(currentLevel) THEN <<>>
    ELSE LET left == currentLevel[i + 1]
             right == IF i + 1 < Len(currentLevel) THEN currentLevel[i + 2] ELSE left
             rec == IF (i = currentIndex \/ i + 1 = currentIndex) /\ i + 1 < Len(currentLevel)
                    THEN IF currentIndex % 2 = 0
                         THEN <<ProofNode(right, "right")>>
                         ELSE <<ProofNode(left, "left")>>
                    ELSE <<>>
         IN rec \o LevelStepsSkipUnpaired(currentLevel, currentIndex, i + 2)

\* The inner for-loop of BuildProof from pair start i: the proof nodes this
\* level appends (one for each pair that contains currentIndex).
RECURSIVE LevelSteps(_, _, _)
LevelSteps(currentLevel, currentIndex, i) ==
    IF i >= Len(currentLevel) THEN <<>>
    ELSE LET left == currentLevel[i + 1]
             right == IF i + 1 < Len(currentLevel) THEN currentLevel[i + 2] ELSE left
             rec == IF i = currentIndex \/ i + 1 = currentIndex
                    THEN IF currentIndex % 2 = 0
                         THEN <<ProofNode(right, "right")>>
                         ELSE <<ProofNode(left, "left")>>
                    ELSE <<>>
         IN rec \o LevelSteps(currentLevel, currentIndex, i + 2)

RECURSIVE ProofLoop(_, _, _)
ProofLoop(currentLevel, currentIndex, proof) ==
    IF Len(currentLevel) > 1
    THEN ProofLoop(NextLevel(currentLevel, 0), currentIndex \div 2,
                   proof \o LevelSteps(currentLevel, currentIndex, 0))
    ELSE [proof |-> proof, root |-> currentLevel[1], err |-> ErrNil]

BuildProof(lvs, idx) ==
    IF Len(lvs) = 0 THEN [proof |-> <<>>, root |-> BadHex, err |-> ErrEmptyLeaves]
    ELSE IF idx < 0 \/ idx >= Len(lvs)
         THEN [proof |-> <<>>, root |-> BadHex, err |-> ErrInvalidIndex]
    ELSE IF \E i \in 1..Len(lvs) : ~hashPattern(lvs[i])
         THEN [proof |-> <<>>, root |-> BadHex, err |-> ErrInvalidLeafFormat]
    ELSE IF Len(lvs) = 1 THEN [proof |-> <<>>, root |-> lvs[1], err |-> ErrNil]
    ELSE ProofLoop(lvs, idx, <<>>)

\* expectedLen of VerifyProof: iterations of n <- (n+1)/2 until n = 1
RECURSIVE TreeHeight(_)
TreeHeight(n) == IF n > 1 THEN 1 + TreeHeight((n + 1) \div 2) ELSE 0

Verdict(ok, err) == [ok |-> ok, err |-> err]

\* Variant of VerifyLoop: the index is not halved from one level to the next,
\* so every level is checked against the parity of the leaf index.
RECURSIVE VerifyLoopIndexNotHalved(_, _, _, _, _, _)
VerifyLoopIndexNotHalved(proof, level, currentHash, curIndex, curN, expectedRoot) ==
    IF level >= Len(proof) THEN Verdict(currentHash = expectedRoot, ErrNil)
    ELSE LET node == proof[level + 1]
             expectedPos == IF curIndex % 2 = 1 THEN "left" ELSE "right"
             sibIndex == IF curIndex % 2 = 1 THEN curIndex - 1 ELSE curIndex + 1
             left == IF node.position = "right" THEN currentHash ELSE node.hash
             right == IF node.position = "right" THEN node.hash ELSE currentHash
         IN IF node.position # expectedPos THEN Verdict(FALSE, ErrInvalidProof)
            ELSE IF (sibIndex < 0 \/ sibIndex >= curN) /\ node.hash # currentHash
                 THEN Verdict(FALSE, ErrInvalidProof)
            ELSE VerifyLoopIndexNotHalved(proof, level + 1, hashPair(left, right),
                                          curIndex, (curN + 1) \div 2, expectedRoot)

\* Variant of VerifyLoop: hashes in the recorded order without comparing the
\* recorded position with the index parity.
RECURSIVE VerifyLoopAnyPosition(_, _, _, _, _, _)
VerifyLoopAnyPosition(proof, level, currentHash, curIndex, curN, expectedRoot) ==
    IF level >= Len(proof) THEN Verdict(currentHash = expectedRoot, ErrNil)
    ELSE LET node == proof[level + 1]
             sibIndex == IF curIndex % 2 = 1 THEN curIndex - 1 ELSE curIndex + 1
             left == IF node.position = "right" THEN currentHash ELSE node.hash
             right == IF node.position = "right" THEN node.hash ELSE currentHash
         IN IF (sibIndex < 0 \/ sibIndex >= curN) /\ node.hash # currentHash
            THEN Verdict(FALSE, ErrInvalidProof)
            ELSE VerifyLoopAnyPosition(proof, level + 1, hashPair(left, right),
                                       curIndex \div 2, (curN + 1) \div 2, expectedRoot)

\* Variant of VerifyLoop: the sibling of an unpaired node is not compared with
\* the current hash.
RECURSIVE VerifyLoopAnySibling(_, _, _, _, _, _)
VerifyLoopAnySibling(proof, level, currentHash, curIndex, curN, expectedRoot) ==
    IF level >= Len(proof) THEN Verdict(currentHash = expectedRoot, ErrNil)
    ELSE LET node == proof[level + 1]
             expectedPos == IF curIndex % 2 = 1 THEN "left" ELSE "right"
             left == IF node.position = "right" THEN currentHash ELSE node.hash
             right == IF node.position = "right" THEN node.hash ELSE currentHash
         IN IF node.position # expectedPos THEN Verdict(FALSE, ErrInvalidProof)
            ELSE VerifyLoopAnySibling(proof, level + 1, hashPair(left, right),
                                      curIndex \div 2, (curN + 1) \div 2, expectedRoot)

\* The level loop of VerifyProof.
RECURSIVE VerifyLoop(_, _, _, _, _, _)
VerifyLoop(proof, level, currentHash, curIndex, curN, expectedRoot) ==
    IF level >= Len(proof) THEN Verdict(currentHash = expectedRoot, ErrNil)
    ELSE LET node == proof[level + 1]
             expectedPos == IF curIndex % 2 = 1 THEN "left" ELSE "right"
             sibIndex == IF curIndex % 2 = 1 THEN curIndex - 1 ELSE curIndex + 1
             left == IF node.position = "right" THEN currentHash ELSE node.hash
             right == IF node.position = "right" THEN node.hash ELSE currentHash
         IN IF node.position # expectedPos THEN Verdict(FALSE, ErrInvalidProof)
            ELSE IF (sibIndex < 0 \/ sibIndex >= curN) /\ node.hash # currentHash
                 THEN Verdict(FALSE, ErrInvalidProof)
            ELSE VerifyLoop(proof, level + 1, hashPair(left, right),
                            curIndex \div 2, (curN + 1) \div 2, expectedRoot)

\* The format loop of VerifyProof over the proof nodes from position i: the
\* error of the first node that fails, its hash checked before its position.
RECURSIVE NodeFormat(_, _)
NodeFormat(proof, i) ==
    IF i >= Len(proof) THEN ErrNil
    ELSE IF ~hashPattern(proof[i + 1].hash) THEN ErrInvalidLeafFormat
    ELSE IF proof[i + 1].position # "left" /\ proof[i + 1].position # "right"
         THEN ErrInvalidProof
    ELSE NodeFormat(proof, i + 1)

\* Variant of VerifyProof: only the empty proof is rejected for its length.
VerifyProofAnyLength(leaf, idx, totalLeaves, proof, expectedRoot) ==
    IF ~hashPattern(leaf) THEN Verdict(FALSE, ErrInvalidLeafFormat)
    ELSE IF ~hashPattern(expectedRoot) THEN Verdict(FALSE, ErrInvalidLeafFormat)
    ELSE IF totalLeaves <= 0 THEN Verdict(FALSE, ErrInvalidTotalLeaves)
    ELSE IF idx < 0 \/ idx >= totalLeaves THEN Verdict(FALSE, ErrInvalidIndex)
    ELSE IF totalLeaves = 1
         THEN IF Len(proof) # 0 THEN Verdict(FALSE, ErrInvalidProof)
              ELSE Verdict(leaf = expectedRoot, ErrNil)
    ELSE IF Len(proof) = 0 THEN Verdict(FALSE, ErrInvalidProof)
    ELSE IF NodeFormat(proof, 0) # ErrNil THEN Verdict(FALSE, NodeFormat(proof, 0))
    ELSE VerifyLoop(proof, 0, leaf, idx, totalLeaves, expectedRoot)

\* Variant of VerifyProof: with one leaf the proof is not looked at.
VerifyProofSingleLeafAnyProof(leaf, idx, totalLeaves, proof, expectedRoot) ==
    IF ~hashPattern(leaf) THEN Verdict(FALSE, ErrInvalidLeafFormat)
    ELSE IF ~hashPattern(expectedRoot) THEN Verdict(FALSE, ErrInvalidLeafFormat)
    ELSE IF totalLeaves <= 0 THEN Verdict(FALSE, ErrInvalidTotalLeaves)
    ELSE IF idx < 0 \/ idx >= totalLeaves THEN Verdict(FALSE, ErrInvalidIndex)
    ELSE IF totalLeaves = 1 THEN Verdict(leaf = expectedRoot, ErrNil)
    ELSE IF Len(proof) # TreeHeight(totalLeaves) THEN Verdict(FALSE, ErrInvalidProof)
    ELSE IF NodeFormat(proof, 0) # ErrNil THEN Verdict(FALSE, NodeFormat(proof, 0))
    ELSE VerifyLoop(proof, 0, leaf, idx, totalLeaves, expectedRoot)

VerifyProof(leaf, idx, totalLeaves, proof, expectedRoot) ==
    IF ~hashPattern(leaf) THEN Verdict(FALSE, ErrInvalidLeafFormat)
    ELSE IF ~hashPattern(expectedRoot) THEN Verdict(FALSE, ErrInvalidLeafFormat)
    ELSE IF totalLeaves <= 0 THEN Verdict(FALSE, ErrInvalidTotalLeaves)
    ELSE IF idx < 0 \/ idx >= totalLeaves THEN Verdict(FALSE, ErrInvalidIndex)
    ELSE IF totalLeaves = 1
         THEN IF Len(proof) # 0 THEN Verdict(FALSE, ErrInvalidProof)
              ELSE Verdict(leaf = expectedRoot, ErrNil)
    ELSE IF Len(proof) # TreeHeight(totalLeaves) THEN Verdict(FALSE, ErrInvalidProof)
    ELSE IF NodeFormat(proof, 0) # ErrNil THEN Verdict(FALSE, NodeFormat(proof, 0))
    ELSE VerifyLoop(proof, 0, leaf, idx, totalLeaves, expectedRoot)

(***************************************************************************)
(* package ledger                                                          *)
(*                                                                         *)
(* The file is a sequence of chunks: <<"json", e>> is the output of        *)
(* json.Marshal(e), <<"cut", e>> a proper non-empty prefix of it (a short   *)
(* write) and <<"lf">> the newline byte.                                   *)
(***************************************************************************)
ErrLedgerIO == "ErrLedgerIO"
ErrLedgerCorrupt == "ErrLedgerCorrupt"
ErrNoRegistrations == "ErrNoRegistrations"
ErrInvalidHex == "ErrInvalidHex"
ErrInvalidTimestamp == "ErrInvalidTimestamp"

\* time.Time{}
ZeroTime == 0

\* t.Format(time.RFC3339Nano) and time.Parse(time.RFC3339Nano, s)
FormatTime(t) == <<"rfc3339nano", t>>
BadTimestamp == <<"notatime">>
ParseTime(s) ==
    IF s[1] = "rfc3339nano" THEN [failed |-> FALSE, t |-> s[2]]
    ELSE [failed |-> TRUE, t |-> ZeroTime]

Sig128 == <<"sig", 1>>

\* hex64Pattern.MatchString and hex128Pattern.MatchString
hex64Pattern(h) == LowerHex(h, 64)
hex128Pattern(h) == LowerHex(h, 128)

\* base64.StdEncoding.EncodeToString
Base64(bytes) == <<"b64", bytes>>

RegisterEntry(ts, objectHashHex, canonicalJSON) ==
    [type |-> "register", canon |-> "v1.0", timestamp |-> FormatTime(ts),
     object_hash_hex |-> objectHashHex,
     canonical_json_b64 |-> IF Len(canonicalJSON) > 0 THEN Base64(canonicalJSON) ELSE <<>>]

Manifest(root, sig, pub, ts) ==
    [merkle_root |-> root, signature |-> sig, public_key |-> pub, timestamp |-> ts]

SealEntry(manifest) == [type |-> "seal", manifest |-> manifest]

JSONBytes(entry) == <<"json", entry>>
CutBytes(entry) == <<"cut", entry>>
LF == <<"lf">>

\* bufio.Scanner with ScanLines: the tokens between newlines; a final token
\* without newline is returned when it is not empty.
RECURSIVE ScanLines(_, _)
ScanLines(f, cur) ==
    IF f = <<>> THEN (IF cur = <<>> THEN <<>> ELSE <<cur>>)
    ELSE IF Head(f)[1] = "lf" THEN <<cur>> \o ScanLines(Tail(f), <<>>)
    ELSE ScanLines(Tail(f), Append(cur, Head(f)))

\* json.Unmarshal succeeds on a line that is exactly one marshalled object
ValidJSON(line) == Len(line) = 1 /\ line[1][1] = "json"

\* json.Unmarshal of a line into RegisterEntry or SealEntry fails when the
\* fields of the object do not have the types of the struct
UnmarshalFails(entry, field) == field \notin DOMAIN entry

\* Variant of ListLoop: a register stamped exactly lastSealTS is returned too.
RECURSIVE ListLoopFromInstant(_, _, _, _)
ListLoopFromInstant(lines, i, lastSealTS, registers) ==
    IF i > Len(lines) THEN [registers |-> registers, err |-> ErrNil]
    ELSE IF Len(lines[i]) = 0 THEN ListLoopFromInstant(lines, i + 1, lastSealTS, registers)
    ELSE IF ~ValidJSON(lines[i]) THEN [registers |-> <<>>, err |-> ErrLedgerCorrupt]
    ELSE LET entry == lines[i][1][2]
         IN IF entry.type = "register"
            THEN IF UnmarshalFails(entry, "timestamp")
                 THEN [registers |-> <<>>, err |-> ErrLedgerCorrupt]
                 ELSE LET ts == ParseTime(entry.timestamp)
                      IN IF ts.failed THEN [registers |-> <<>>, err |-> ErrLedgerCorrupt]
                         ELSE IF ts.t >= lastSealTS
                              THEN ListLoopFromInstant(lines, i + 1, lastSealTS,
                                                       Append(registers, entry))
                         ELSE ListLoopFromInstant(lines, i + 1, lastSealTS, registers)
            ELSE ListLoopFromInstant(lines, i + 1, lastSealTS, registers)

\* the scan loop of ListRegistersSince from line i
RECURSIVE ListLoop(_, _, _, _)
ListLoop(lines, i, lastSealTS, registers) ==
    IF i > Len(lines) THEN [registers |-> registers, err |-> ErrNil]
    ELSE IF Len(lines[i]) = 0 THEN ListLoop(lines, i + 1, lastSealTS, registers)
    ELSE IF ~ValidJSON(lines[i]) THEN [registers |-> <<>>, err |-> ErrLedgerCorrupt]
    ELSE LET entry == lines[i][1][2]
         IN IF entry.type = "register"
            THEN IF UnmarshalFails(entry, "timestamp")
                 THEN [registers |-> <<>>, err |-> ErrLedgerCorrupt]
                 ELSE LET ts == ParseTime(entry.timestamp)
                      IN IF ts.failed THEN [registers |-> <<>>, err |-> ErrLedgerCorrupt]
                         ELSE IF ts.t > lastSealTS
                              THEN ListLoop(lines, i + 1, lastSealTS, Append(registers, entry))
                         ELSE ListLoop(lines, i + 1, lastSealTS, registers)
            ELSE ListLoop(lines, i + 1, lastSealTS, registers)

\* ListRegistersSince on file content f; openFails: os.Open returns an error
ListRegistersSinceOf(f, ex, lastSealTS, openFails) ==
    IF ~ex THEN [registers |-> <<>>, err |-> ErrNil, hit |-> FALSE]
    ELSE IF openFails THEN [registers |-> <<>>, err |-> ErrLedgerIO, hit |-> TRUE]
    ELSE LET r == ListLoop(ScanLines(f, <<>>), 1, lastSealTS, <<>>)
         IN [registers |-> r.registers, err |-> r.err, hit |-> FALSE]

\* the scan loop of getLastSealTimestamp from line i
RECURSIVE SealLoop(_, _, _)
SealLoop(lines, i, lastSealTS) ==
    IF i > Len(lines) THEN [ts |-> lastSealTS, err |-> ErrNil]
    ELSE IF Len(lines[i]) = 0 THEN SealLoop(lines, i + 1, lastSealTS)
    ELSE IF ~ValidJSON(lines[i]) THEN [ts |-> ZeroTime, err |-> ErrLedgerCorrupt]
    ELSE LET entry == lines[i][1][2]
         IN IF entry.type = "seal"
            THEN IF UnmarshalFails(entry, "manifest")
                 THEN [ts |-> ZeroTime, err |-> ErrLedgerCorrupt]
                 ELSE LET ts == ParseTime(entry.manifest.timestamp)
                      IN IF ts.failed THEN [ts |-> ZeroTime, err |-> ErrLedgerCorrupt]
                         ELSE SealLoop(lines, i + 1, ts.t)
            ELSE SealLoop(lines, i + 1, lastSealTS)

getLastSealTimestamp(f, ex, openFails) ==
    IF ~ex THEN [ts |-> ZeroTime, err |-> ErrNil, hit |-> FALSE]
    ELSE IF openFails THEN [ts |-> ZeroTime, err |-> ErrLedgerIO, hit |-> TRUE]
    ELSE LET r == SealLoop(ScanLines(f, <<>>), 1, ZeroTime)
         IN [ts |-> r.ts, err |-> r.err, hit |-> FALSE]

\* I/O failures of one appendEntry call, by the step that fails: os.MkdirAll,
\* os.OpenFile, the first file.Write (nothing written, or a short write), the
\* second file.Write.
AppendFaults == {"mkdir", "open", "write0", "writecut", "newline"}

Outcome(f, ex, err, hit) == [file |-> f, exists |-> ex, err |-> err, hit |-> hit]

\* Variant of appendEntry: the file is opened truncating instead of appending.
AppendEntryTruncating(f, ex, entry, fault) ==
    IF fault \in {"mkdir", "open"} THEN Outcome(f, ex, ErrLedgerIO, TRUE)
    ELSE IF fault = "write0" THEN Outcome(<<>>, TRUE, ErrLedgerIO, TRUE)
    ELSE IF fault = "writecut" THEN Outcome(<<CutBytes(entry)>>, TRUE, ErrLedgerIO, TRUE)
    ELSE IF fault = "newline" THEN Outcome(<<JSONBytes(entry)>>, TRUE, ErrLedgerIO, TRUE)
    ELSE Outcome(<<JSONBytes(entry), LF>>, TRUE, ErrNil, FALSE)

\* appendEntry as one step (the caller holds no other thread at bay: used by
\* the sequential caller; the threads of the concurrent model take it step
\* by step).  json.Marshal cannot fail on the two entry types.
appendEntry(f, ex, entry, fault) ==
    IF fault \in {"mkdir", "open"} THEN Outcome(f, ex, ErrLedgerIO, TRUE)
    ELSE IF fault = "write0" THEN Outcome(f, TRUE, ErrLedgerIO, TRUE)
    ELSE IF fault = "writecut" THEN Outcome(Append(f, CutBytes(entry)), TRUE, ErrLedgerIO, TRUE)
    ELSE IF fault = "newline" THEN Outcome(Append(f, JSONBytes(entry)), TRUE, ErrLedgerIO, TRUE)
    ELSE Outcome(f \o <<JSONBytes(entry), LF>>, TRUE, ErrNil, FALSE)

AppendRegisterOf(f, ex, clock, objectHashHex, canonicalJSON, fault) ==
    IF ~hex64Pattern(objectHashHex) THEN Outcome(f, ex, ErrInvalidHex, FALSE)
    ELSE appendEntry(f, ex, RegisterEntry(clock, objectHashHex, canonicalJSON), fault)

\* Variant of AppendSealOf: the registrations are looked for before the
\* manifest is validated.
AppendSealOfRegistrationsFirst(f, ex, manifest, fault) ==
    LET lastSeal == getLastSealTimestamp(f, ex, fault = "scan1")
    IN IF lastSeal.err # ErrNil THEN Outcome(f, ex, lastSeal.err, lastSeal.hit)
       ELSE LET regs == ListRegistersSinceOf(f, ex, lastSeal.ts, fault = "scan2")
            IN IF regs.err # ErrNil THEN Outcome(f, ex, regs.err, regs.hit)
               ELSE IF Len(regs.registers) = 0
                    THEN Outcome(f, ex, ErrNoRegistrations, FALSE)
               ELSE IF ~hex64Pattern(manifest.merkle_root) THEN Outcome(f, ex, ErrInvalidHex, FALSE)
               ELSE IF ~hex128Pattern(manifest.signature) THEN Outcome(f, ex, ErrInvalidHex, FALSE)
               ELSE IF ~hex64Pattern(manifest.public_key) THEN Outcome(f, ex, ErrInvalidHex, FALSE)
               ELSE IF ParseTime(manifest.timestamp).failed
                    THEN Outcome(f, ex, ErrInvalidTimestamp, FALSE)
               ELSE appendEntry(f, ex, SealEntry(manifest), fault)

AppendSealOf(f, ex, manifest, fault) ==
    IF ~hex64Pattern(manifest.merkle_root) THEN Outcome(f, ex, ErrInvalidHex, FALSE)
    ELSE IF ~hex128Pattern(manifest.signature) THEN Outcome(f, ex, ErrInvalidHex, FALSE)
    ELSE IF ~hex64Pattern(manifest.public_key) THEN Outcome(f, ex, ErrInvalidHex, FALSE)
    ELSE IF ParseTime(manifest.timestamp).failed THEN Outcome(f, ex, ErrInvalidTimestamp, FALSE)
    ELSE LET lastSeal == getLastSealTimestamp(f, ex, fault = "scan1")
         IN IF lastSeal.err # ErrNil THEN Outcome(f, ex, lastSeal.err, lastSeal.hit)
            ELSE LET regs == ListRegistersSinceOf(f, ex, lastSeal.ts, fault = "scan2")
                 IN IF regs.err # ErrNil THEN Outcome(f, ex, regs.err, regs.hit)
                    ELSE IF Len(regs.registers) = 0
                         THEN Outcome(f, ex, ErrNoRegistrations, FALSE)
                    ELSE appendEntry(f, ex, SealEntry(manifest), fault)

(***************************************************************************)
(* package sign                                                            *)
(***************************************************************************)
ErrInvalidLength == "ErrInvalidLength"
ErrVerificationFailed == "ErrVerificationFailed"
\* the errors wrapping a hex.DecodeString failure
ErrDecode == "ErrDecode"

Seed(k) == <<"seed", k>>

\* ed25519.NewKeyFromSeed, PrivateKey.Public, ed25519.Sign, ed25519.Verify
NewKeyFromSeed(seed) == <<"bytes", <<"priv", seed[2]>>>>
Public(priv) == <<"bytes", <<"pub", priv[2][2]>>>>
Sign(priv, msg) == <<"bytes", <<"sig", priv[2][2], msg[2]>>>>
Verify(pub, msg, sig) ==
    /\ pub[2][1] = "pub"
    /\ sig[2][1] = "sig"
    /\ Len(sig[2]) = 3
    /\ sig[2][2] = pub[2][2]
    /\ sig[2][3] = msg[2]

ValidateHashHex(hashHex) == IF ~hex64Pattern(hashHex) THEN ErrInvalidHex ELSE ErrNil
ValidateSeedHex(seedHex) == IF ~hex64Pattern(seedHex) THEN ErrInvalidHex ELSE ErrNil
ValidatePubKeyHex(pubHex) == IF ~hex64Pattern(pubHex) THEN ErrInvalidHex ELSE ErrNil
ValidateSignatureHex(sigHex) == IF ~hex128Pattern(sigHex) THEN ErrInvalidHex ELSE ErrNil

Signed(sig, pub, err) == [sig |-> sig, pub |-> pub, err |-> err]

\* the three results of DeriveKeyPairFromSeedHex, in the order returned
Derived(first, second, err) == [first |-> first, second |-> second, err |-> err]

ErrSeedLength == "seed must be 32 bytes"

\* DeriveKeyPairFromSeedHex of the package file in part_011: (pubHex, privHex, err)
DeriveKeyPairFromSeedHexValidated(seedHex) ==
    IF ValidateSeedHex(seedHex) # ErrNil THEN Derived(EmptyString, EmptyString, ErrInvalidHex)
    ELSE LET seed == DecodeString(seedHex)
         IN IF seed.failed THEN Derived(EmptyString, EmptyString, ErrDecode)
            ELSE IF ByteLen(seed.bytes) # 32
                 THEN Derived(EmptyString, EmptyString, ErrInvalidLength)
            ELSE LET priv == NewKeyFromSeed(seed.bytes)
                     pub == Public(priv)
                 IN Derived(EncodeToString(pub), EncodeToString(priv), ErrNil)

\* DeriveKeyPairFromSeedHex of derive.go: (privHex, pubHex, err)
DeriveKeyPairFromSeedHex(seedHex) ==
    LET seed == DecodeString(seedHex)
    IN IF seed.failed THEN Derived(EmptyString, EmptyString, ErrDecode)
       ELSE IF ByteLen(seed.bytes) # 32 THEN Derived(EmptyString, EmptyString, ErrSeedLength)
       ELSE LET priv == NewKeyFromSeed(seed.bytes)
                pub == Public(priv)
            IN Derived(EncodeToString(priv), EncodeToString(pub), ErrNil)

\* Variant of SignHashHex: the message signed is the text of the hex string,
\* not the 32 bytes it encodes.
SignHashHexOverText(hashHex, seedHex) ==
    IF ValidateHashHex(hashHex) # ErrNil THEN Signed(EmptyString, EmptyString, ErrInvalidHex)
    ELSE IF ValidateSeedHex(seedHex) # ErrNil THEN Signed(EmptyString, EmptyString, ErrInvalidHex)
    ELSE LET seed == DecodeString(seedHex)
             priv == NewKeyFromSeed(seed.bytes)
         IN Signed(EncodeToString(Sign(priv, <<"bytes", <<"text", hashHex>>>>)),
                   EncodeToString(Public(priv)), ErrNil)

SignHashHex(hashHex, seedHex) ==
    IF ValidateHashHex(hashHex) # ErrNil THEN Signed(EmptyString, EmptyString, ErrInvalidHex)
    ELSE IF ValidateSeedHex(seedHex) # ErrNil THEN Signed(EmptyString, EmptyString, ErrInvalidHex)
    ELSE LET msg == DecodeString(hashHex)
             seed == DecodeString(seedHex)
         IN IF msg.failed THEN Signed(EmptyString, EmptyString, ErrDecode)
            ELSE IF ByteLen(msg.bytes) # 32 THEN Signed(EmptyString, EmptyString, ErrInvalidLength)
            ELSE IF seed.failed THEN Signed(EmptyString, EmptyString, ErrDecode)
            ELSE IF ByteLen(seed.bytes) # 32 THEN Signed(EmptyString, EmptyString, ErrInvalidLength)
            ELSE LET priv == NewKeyFromSeed(seed.bytes)
                     pub == Public(priv)
                     sig == Sign(priv, msg.bytes)
                 IN Signed(EncodeToString(sig), EncodeToString(pub), ErrNil)

\* the part of VerifyHashHex after the three format checks
VerifyDecoded(hashHex, sigHex, pubHex) ==
    LET msg == DecodeString(hashHex)
        sig == DecodeString(sigHex)
        pub == DecodeString(pubHex)
    IN IF msg.failed THEN Verdict(FALSE, ErrDecode)
       ELSE IF ByteLen(msg.bytes) # 32 THEN Verdict(FALSE, ErrInvalidLength)
       ELSE IF sig.failed THEN Verdict(FALSE, ErrDecode)
       ELSE IF ByteLen(sig.bytes) # 64 THEN Verdict(FALSE, ErrInvalidLength)
       ELSE IF pub.failed THEN Verdict(FALSE, ErrDecode)
       ELSE IF ByteLen(pub.bytes) # 32 THEN Verdict(FALSE, ErrInvalidLength)
       ELSE IF ~Verify(pub.bytes, msg.bytes, sig.bytes) THEN Verdict(FALSE, ErrVerificationFailed)
       ELSE Verdict(TRUE, ErrNil)

\* Variant of VerifyHashHex: the signature is decoded without the check of
\* its format.
VerifyHashHexUnvalidatedSignature(hashHex, sigHex, pubHex) ==
    IF ValidateHashHex(hashHex) # ErrNil THEN Verdict(FALSE, ErrInvalidHex)
    ELSE IF ValidatePubKeyHex(pubHex) # ErrNil THEN Verdict(FALSE, ErrInvalidHex)
    ELSE VerifyDecoded(hashHex, sigHex, pubHex)

VerifyHashHex(hashHex, sigHex, pubHex) ==
    IF ValidateHashHex(hashHex) # ErrNil THEN Verdict(FALSE, ErrInvalidHex)
    ELSE IF ValidateSignatureHex(sigHex) # ErrNil THEN Verdict(FALSE, ErrInvalidHex)
    ELSE IF ValidatePubKeyHex(pubHex) # ErrNil THEN Verdict(FALSE, ErrInvalidHex)
    ELSE VerifyDecoded(hashHex, sigHex, pubHex)

(***************************************************************************)
(* package policy                                                          *)
(***************************************************************************)
RotationPolicy(hashAlg, allowed, domainSeparator, minDepth, maxDepth, intervalSeconds, idFormat, requirePrevAnchor, strictMonotonicEpoch) ==
    [Constraints |-> [HashAlg |-> hashAlg, AllowedHashAlgs |-> allowed,
                      DomainSeparator |-> domainSeparator,
                      MinDepth |-> minDepth, MaxDepth |-> maxDepth],
     Epochs |-> [IntervalSeconds |-> intervalSeconds, IDFormat |-> idFormat],
     Cutover |-> [RequirePrevAnchor |-> requirePrevAnchor,
                  StrictMonotonicEpoch |-> strictMonotonicEpoch]]

\* the AUDIT_FAIL errors of ValidateInvariants, one per rule
AuditFailHashAlg == "AUDIT_FAIL: hash_alg is not supported"
AuditFailAllowedAlgs == "AUDIT_FAIL: sha256 must be present in allowed_hash_algs"
AuditFailDomainSeparator == "AUDIT_FAIL: domain_separator violates protocol version"
AuditFailDepth == "AUDIT_FAIL: invalid Merkle depth boundaries"
AuditFailInterval == "AUDIT_FAIL: rotation interval is below production safety limit"
AuditFailIDFormat == "AUDIT_FAIL: epoch_id_format is not recognized"
AuditFailCutover == "AUDIT_FAIL: cutover rules must enforce previous_anchor and strict_monotonicity"

\* Variant of ValidateInvariants: the interval floor is one hour.
ValidateInvariantsHourlyFloor(p) ==
    IF p.Constraints.HashAlg # "sha256" THEN AuditFailHashAlg
    ELSE IF ~\E i \in 1..Len(p.Constraints.AllowedHashAlgs) :
                p.Constraints.AllowedHashAlgs[i] = "sha256"
         THEN AuditFailAllowedAlgs
    ELSE IF p.Constraints.DomainSeparator # "RVA_NODE:v1" THEN AuditFailDomainSeparator
    ELSE IF p.Constraints.MinDepth < 1 \/ p.Constraints.MaxDepth > 64 THEN AuditFailDepth
    ELSE IF p.Epochs.IntervalSeconds < 3600 THEN AuditFailInterval
    ELSE IF p.Epochs.IDFormat # "numeric_ascending" THEN AuditFailIDFormat
    ELSE IF ~p.Cutover.RequirePrevAnchor \/ ~p.Cutover.StrictMonotonicEpoch
         THEN AuditFailCutover
    ELSE ErrNil

ValidateInvariants(p) ==
    IF p.Constraints.HashAlg # "sha256" THEN AuditFailHashAlg
    ELSE IF ~\E i \in 1..Len(p.Constraints.AllowedHashAlgs) :
                p.Constraints.AllowedHashAlgs[i] = "sha256"
         THEN AuditFailAllowedAlgs
    ELSE IF p.Constraints.DomainSeparator # "RVA_NODE:v1" THEN AuditFailDomainSeparator
    ELSE IF p.Constraints.MinDepth < 1 \/ p.Constraints.MaxDepth > 64 THEN AuditFailDepth
    ELSE IF p.Epochs.IntervalSeconds < 86400 THEN AuditFailInterval
    ELSE IF p.Epochs.IDFormat # "numeric_ascending" THEN AuditFailIDFormat
    ELSE IF ~p.Cutover.RequirePrevAnchor \/ ~p.Cutover.StrictMonotonicEpoch
         THEN AuditFailCutover
    ELSE ErrNil

\* the zero RotationPolicy
NoPolicy == RotationPolicy("", <<>>, "", 0, 0, 0, "", FALSE, FALSE)

\* the AUDIT_FAIL errors of LoadPolicy
AuditFailRead == "AUDIT_FAIL: could not read policy file"
AuditFailJSON == "AUDIT_FAIL: policy file has malformed JSON structure"
AuditFailVersion == "AUDIT_FAIL: policy file is empty or missing mandatory version field"

\* LoadPolicy on a policy file: <<"missing">> cannot be read, <<"text">> is
\* not the JSON of a policy, <<"json", v, p>> is the JSON of the policy p
\* with policy_version v
LoadPolicy(f) ==
    IF f[1] = "missing" THEN [pol |-> NoPolicy, err |-> AuditFailRead]
    ELSE IF f[1] # "json" THEN [pol |-> NoPolicy, err |-> AuditFailJSON]
    ELSE IF f[2] = "" THEN [pol |-> NoPolicy, err |-> AuditFailVersion]
    ELSE [pol |-> f[3], err |-> ErrNil]

\* the lines of the rva-rotate command that matter to its caller
LogAuditFail == "[AUDIT_FAIL]"
LogVerdict == "VERDICT: [ALLOW_ROTATION]"

(***************************************************************************)
(* The browser-side verifier (rva-demo-portal/lib/rva/verifier.ts)         *)
(***************************************************************************)
\* a field the pasted JSON does not carry
Undefined == <<"undefined">>

\* typeof hash === 'string', hash.length === 64, /^[0-9a-fA-F]{64}$/
isValidHash(hash) ==
    /\ hash[1] # "undefined"
    /\ HexLength(hash) = 64
    /\ IsHex(hash)

\* Variant of hashPairV1: the digest of the two decoded digests concatenated,
\* as package merkle computes it.
hashPairV1Concatenated(a, b) == <<"node", ToLower(a), ToLower(b)>>

\* hashPair of verifier.ts: sha256("RVA_NODE:v1:" + aLower + ":" + bLower)
hashPairV1(a, b) == <<"rva", ToLower(a), ToLower(b)>>

MerkleStep(sibling, direction) == [sibling |-> sibling, direction |-> direction]

VerificationResult(isValid, computedRoot, expectedRoot) ==
    [thrown |-> FALSE, isValid |-> isValid,
     computedRoot |-> computedRoot, expectedRoot |-> expectedRoot]

\* verifyMerkleProof threw CRITICAL_SECURITY_ERROR; handleVerify shows the
\* error and no result
Thrown == [thrown |-> TRUE, isValid |-> FALSE,
           computedRoot |-> EmptyString, expectedRoot |-> EmptyString]

\* the proof traversal of verifyMerkleProof from step i
RECURSIVE Traverse(_, _, _, _)
Traverse(proof, i, currentHash, expectedRoot) ==
    IF i > Len(proof)
    THEN VerificationResult(currentHash = ToLower(expectedRoot), currentHash,
                            ToLower(expectedRoot))
    ELSE IF ~isValidHash(proof[i].sibling) THEN Thrown
    ELSE IF proof[i].direction # "left" /\ proof[i].direction # "right" THEN Thrown
    ELSE LET sibling == ToLower(proof[i].sibling)
         IN Traverse(proof, i + 1,
                     IF proof[i].direction = "left" THEN hashPairV1(sibling, currentHash)
                     ELSE hashPairV1(currentHash, sibling),
                     expectedRoot)

\* (the proof handed over is always an array)
verifyMerkleProof(targetHash, proof, expectedRoot) ==
    IF ~isValidHash(targetHash) THEN Thrown
    ELSE IF ~isValidHash(expectedRoot) THEN Thrown
    ELSE Traverse(proof, 1, ToLower(targetHash), expectedRoot)

\* handleVerify of the demo client: the pasted payload is parsed and its
\* document_hash, merkle_proof and expected_root are handed to
\* verifyMerkleProof; no other field of the payload is read
handleVerify(data) ==
    verifyMerkleProof(data.document_hash, data.merkle_proof, data.expected_root)

(***************************************************************************)
(* The parts of the model a specification does not exercise stay put       *)
(***************************************************************************)
SignOff ==
    /\ sHash = EmptyString /\ sSeed = EmptyString
    /\ signed = Signed(EmptyString, EmptyString, ErrNil)
    /\ kHash = EmptyString /\ kSig = EmptyString /\ kPub = EmptyString
    /\ checked = Verdict(FALSE, ErrNil)
    /\ spc = "off"
    /\ derived = <<>>

\* no policy file is looked at and the rva-rotate command is not run
RotateOff == policyFile = <<"missing">> /\ stderr = <<>> /\ exitCode = -1

PolicyOff ==
    /\ policy = NoPolicy
    /\ audit = ErrNil
    /\ ppc = "off"
    /\ RotateOff

BrowserOff ==
    /\ cert = [document_hash |-> Undefined, merkle_proof |-> <<>>,
               expected_root |-> Undefined, signature |-> Undefined,
               public_key |-> Undefined]
    /\ report = Thrown
    /\ opc = "off"

(***************************************************************************)
(* The sequential caller of package ledger                                 *)
(***************************************************************************)
Threads == 1..NumThreads

ObjectHashInputs == {LeafHash(1), Upper(LeafHash(1)), BadHex}
JSONInputs == {<<>>, <<"doc">>}
ManifestTimes == {FormatTime(t) : t \in 1..MaxClock} \cup {BadTimestamp}
\* manifests with at most one malformed field
ManifestInputs ==
    {Manifest(LeafHash(1), Sig128, LeafHash(1), ts) : ts \in ManifestTimes}
    \cup {Manifest(BadHex, Sig128, LeafHash(1), FormatTime(1)),
          Manifest(LeafHash(1), BadHex, LeafHash(1), FormatTime(1)),
          Manifest(LeafHash(1), Sig128, BadHex, FormatTime(1))}

NoCall == [op |-> "none", arg |-> <<>>, err |-> ErrNil, out |-> <<>>,
           before |-> <<>>, existed |-> FALSE, fault |-> "none"]

Call(op, arg, err, out, fault) ==
    [op |-> op, arg |-> arg, err |-> err, out |-> out,
     before |-> file, existed |-> exists, fault |-> fault]

ThreadsOff ==
    /\ ledgerMutex = 0
    /\ tpc = [t \in Threads |-> "off"]
    /\ tentry = [t \in Threads |-> <<>>]
    /\ tret = [t \in Threads |-> <<>>]

LedgerOff ==
    /\ file = <<>> /\ exists = FALSE /\ now = 1 /\ faults = 0
    /\ calls = 0 /\ last = NoCall
    /\ ThreadsOff

\* the wall clock advances
Tick ==
    /\ now < MaxClock
    /\ now' = now + 1
    /\ UNCHANGED <<file, exists, faults, svars, cvars, mvars, ovars>>

Inject(fault, hit) ==
    /\ fault # "none" => (hit /\ faults < MaxFaults)
    /\ faults' = IF fault # "none" THEN faults + 1 ELSE faults

AppendRegister ==
    /\ calls < MaxCalls
    /\ \E h \in ObjectHashInputs, j \in JSONInputs, fault \in AppendFaults \cup {"none"} :
          LET r == AppendRegisterOf(file, exists, now, h, j, fault)
          IN /\ Inject(fault, r.hit)
             /\ file' = r.file
             /\ exists' = r.exists
             /\ last' = Call("AppendRegister", h, r.err, <<>>, fault)
    /\ calls' = calls + 1
    /\ UNCHANGED <<now, cvars, mvars, ovars>>

AppendSeal ==
    /\ calls < MaxCalls
    /\ \E m \in ManifestInputs, fault \in AppendFaults \cup {"scan1", "scan2", "none"} :
          LET r == AppendSealOf(file, exists, m, fault)
          IN /\ Inject(fault, r.hit)
             /\ file' = r.file
             /\ exists' = r.exists
             /\ last' = Call("AppendSeal", m, r.err, <<>>, fault)
    /\ calls' = calls + 1
    /\ UNCHANGED <<now, cvars, mvars, ovars>>

ListRegistersSince ==
    /\ calls < MaxCalls
    /\ \E ts \in ZeroTime..MaxClock, fault \in {"scan", "none"} :
          LET r == ListRegistersSinceOf(file, exists, ts, fault = "scan")
          IN /\ Inject(fault, r.hit)
             /\ last' = Call("ListRegistersSince", ts, r.err, r.registers, fault)
    /\ calls' = calls + 1
    /\ UNCHANGED <<file, exists, now, cvars, mvars, ovars>>

(***************************************************************************)
(* A build / change / verify experiment on package merkle                  *)
(***************************************************************************)
LeafVals == {LeafHash(k) : k \in 1..NumLeafVals}

\* digests an experiment substitutes: the leaf digests, one parent digest, a
\* digest in upper case and a string that is not hex
HashInputs == LeafVals \cup {hashPair(LeafHash(1), LeafHash(1)), Upper(LeafHash(1)), BadHex}

Positions == {"left", "right", "up"}

LeafSeqs == UNION {[1..n -> LeafVals] : n \in 1..MaxLeaves}

MerkleOff ==
    /\ leaves = <<>> /\ index = 0 /\ built = BuildProof(<<>>, 0)
    /\ vLeaf = BadHex /\ vIndex = 0 /\ vTotal = 0 /\ vProof = <<>> /\ vRoot = BadHex
    /\ edits = 0 /\ verdict = Verdict(FALSE, ErrNil) /\ mpc = "off"

MerkleInit ==
    /\ LedgerOff
    /\ SignOff /\ PolicyOff /\ BrowserOff
    /\ leaves \in LeafSeqs
    /\ index \in 0..(Len(leaves) - 1)
    /\ built = BuildProof(<<>>, 0)
    /\ vLeaf = BadHex /\ vIndex = 0 /\ vTotal = 0 /\ vProof = <<>> /\ vRoot = BadHex
    /\ edits = 0 /\ verdict = Verdict(FALSE, ErrNil) /\ mpc = "start"

\* proof, root := BuildProof(leaves, index); the caller keeps BuildRoot's root
\* and prepares VerifyProof(leaves[index], index, len(leaves), proof, root)
DoBuildProof ==
    /\ mpc = "start"
    /\ built' = BuildProof(leaves, index)
    /\ vLeaf' = leaves[index + 1]
    /\ vIndex' = index
    /\ vTotal' = Len(leaves)
    /\ vProof' = built'.proof
    /\ vRoot' = BuildRoot(leaves).root
    /\ mpc' = "built"
    /\ UNCHANGED <<leaves, index, edits, verdict, lvars, svars, cvars, ovars>>

\* one argument of the VerifyProof call is changed before the call
Edit ==
    /\ mpc = "built"
    /\ edits = 0
    /\ edits' = edits + 1
    /\ UNCHANGED <<leaves, index, built, verdict, mpc, lvars, svars, cvars, ovars>>

SetPosition ==
    /\ Edit
    /\ \E k \in 1..Len(vProof), p \in Positions :
          /\ p # vProof[k].position
          /\ vProof' = [vProof EXCEPT ![k].position = p]
    /\ UNCHANGED <<vLeaf, vIndex, vTotal, vRoot>>

SetSibling ==
    /\ Edit
    /\ \E k \in 1..Len(vProof), h \in HashInputs :
          /\ h # vProof[k].hash
          /\ vProof' = [vProof EXCEPT ![k].hash = h]
    /\ UNCHANGED <<vLeaf, vIndex, vTotal, vRoot>>

DropLastStep ==
    /\ Edit
    /\ Len(vProof) > 0
    /\ vProof' = SubSeq(vProof, 1, Len(vProof) - 1)
    /\ UNCHANGED <<vLeaf, vIndex, vTotal, vRoot>>

AddStep ==
    /\ Edit
    /\ \E h \in HashInputs, p \in {"left", "right"} :
          vProof' = Append(vProof, ProofNode(h, p))
    /\ UNCHANGED <<vLeaf, vIndex, vTotal, vRoot>>

SetLeaf ==
    /\ Edit
    /\ \E h \in HashInputs : h # vLeaf /\ vLeaf' = h
    /\ UNCHANGED <<vIndex, vTotal, vProof, vRoot>>

SetRoot ==
    /\ Edit
    /\ \E h \in HashInputs : h # vRoot /\ vRoot' = h
    /\ UNCHANGED <<vLeaf, vIndex, vTotal, vProof>>

SetIndex ==
    /\ Edit
    /\ \E i \in -1..MaxLeaves : i # vIndex /\ vIndex' = i
    /\ UNCHANGED <<vLeaf, vTotal, vProof, vRoot>>

SetTotal ==
    /\ Edit
    /\ \E n \in 0..(MaxLeaves + 1) : n # vTotal /\ vTotal' = n
    /\ UNCHANGED <<vLeaf, vIndex, vProof, vRoot>>

DoVerifyProof ==
    /\ mpc = "built"
    /\ verdict' = VerifyProof(vLeaf, vIndex, vTotal, vProof, vRoot)
    /\ mpc' = "verified"
    /\ UNCHANGED <<leaves, index, built, vLeaf, vIndex, vTotal, vProof, vRoot, edits, lvars, svars, cvars, ovars>>

MerkleNext ==
    \/ DoBuildProof
    \/ SetPosition
    \/ SetSibling
    \/ DropLastStep
    \/ AddStep
    \/ SetLeaf
    \/ SetRoot
    \/ SetIndex
    \/ SetTotal
    \/ DoVerifyProof

SpecMerkle == MerkleInit /\ [][MerkleNext]_vars

(***************************************************************************)
(* Specification of the sequential caller                                  *)
(***************************************************************************)
Init ==
    /\ MerkleOff
    /\ LedgerOff
    /\ SignOff /\ PolicyOff /\ BrowserOff

Next ==
    \/ Tick
    \/ AppendRegister
    \/ AppendSeal
    \/ ListRegistersSince

Spec == Init /\ [][Next]_vars

(***************************************************************************)
(* Concurrent appenders: NumThreads threads, each calling AppendRegister   *)
(* CallsPerThread times; appendEntry taken one statement at a time.        *)
(***************************************************************************)
Returns(t, err) ==
    /\ tret' = [tret EXCEPT ![t] = Append(@, err)]
    /\ tpc' = [tpc EXCEPT ![t] = "idle"]
    /\ tentry' = [tentry EXCEPT ![t] = <<>>]

\* Variant of Fails: the error is returned without the deferred Unlock.
FailsHoldingMutex(t) ==
    /\ faults < MaxFaults
    /\ faults' = faults + 1
    /\ Returns(t, ErrLedgerIO)
    /\ UNCHANGED ledgerMutex

\* an I/O step of thread t fails: appendEntry returns ErrLedgerIO and the
\* deferred Close and Unlock run
Fails(t) ==
    /\ faults < MaxFaults
    /\ faults' = faults + 1
    /\ Returns(t, ErrLedgerIO)
    /\ ledgerMutex' = 0

\* AppendRegister up to the call of appendEntry: validate, stamp, build entry.
\* The appenders pass a valid hash and no canonical JSON.
StartAppend(t) ==
    /\ tpc[t] = "idle"
    /\ Len(tret[t]) < CallsPerThread
    /\ \E h \in {LeafHash(1)}, j \in {<<>>} :
          IF ~hex64Pattern(h)
          THEN Returns(t, ErrInvalidHex)
          ELSE /\ tentry' = [tentry EXCEPT ![t] = RegisterEntry(now, h, j)]
               /\ tpc' = [tpc EXCEPT ![t] = "lock"]
               /\ UNCHANGED tret
    /\ UNCHANGED <<lvars, svars, ledgerMutex, mvars, ovars>>

\* Variant of Lock: the mutex is taken without waiting for it to be free.
LockWithoutWaiting(t) ==
    /\ tpc[t] = "lock"
    /\ ledgerMutex' = t
    /\ tpc' = [tpc EXCEPT ![t] = "mkdir"]
    /\ UNCHANGED <<lvars, svars, tentry, tret, mvars, ovars>>

\* ledgerMutex.Lock()
Lock(t) ==
    /\ tpc[t] = "lock"
    /\ ledgerMutex = 0
    /\ ledgerMutex' = t
    /\ tpc' = [tpc EXCEPT ![t] = "mkdir"]
    /\ UNCHANGED <<lvars, svars, tentry, tret, mvars, ovars>>

\* os.MkdirAll(dir, 0755), then json.Marshal(entry)
MkdirAll(t) ==
    /\ tpc[t] = "mkdir"
    /\ \/ /\ tpc' = [tpc EXCEPT ![t] = "open"]
          /\ UNCHANGED <<faults, ledgerMutex, tentry, tret>>
       \/ Fails(t)
    /\ UNCHANGED <<file, exists, now, svars, mvars, ovars>>

\* os.OpenFile(path, O_APPEND|O_CREATE|O_WRONLY, 0644)
OpenFile(t) ==
    /\ tpc[t] = "open"
    /\ \/ /\ exists' = TRUE
          /\ tpc' = [tpc EXCEPT ![t] = "write"]
          /\ UNCHANGED <<faults, ledgerMutex, tentry, tret>>
       \/ Fails(t) /\ UNCHANGED exists
    /\ UNCHANGED <<file, now, svars, mvars, ovars>>

\* file.Write(jsonBytes)
WriteJSON(t) ==
    /\ tpc[t] = "write"
    /\ \/ /\ file' = Append(file, JSONBytes(tentry[t]))
          /\ tpc' = [tpc EXCEPT ![t] = "newline"]
          /\ UNCHANGED <<faults, ledgerMutex, tentry, tret>>
       \/ Fails(t) /\ file' \in {file, Append(file, CutBytes(tentry[t]))}
    /\ UNCHANGED <<exists, now, svars, mvars, ovars>>

\* file.Write("\n"), return nil; the deferred Close and Unlock run
WriteNewline(t) ==
    /\ tpc[t] = "newline"
    /\ \/ /\ file' = Append(file, LF)
          /\ Returns(t, ErrNil)
          /\ ledgerMutex' = 0
          /\ UNCHANGED faults
       \/ Fails(t) /\ UNCHANGED file
    /\ UNCHANGED <<exists, now, svars, mvars, ovars>>

ConcInit ==
    /\ MerkleOff
    /\ SignOff /\ PolicyOff /\ BrowserOff
    /\ file = <<>> /\ exists = FALSE /\ now = 1 /\ faults = 0
    /\ calls = 0 /\ last = NoCall
    /\ ledgerMutex = 0
    /\ tpc = [t \in Threads |-> "idle"]
    /\ tentry = [t \in Threads |-> <<>>]
    /\ tret = [t \in Threads |-> <<>>]

ConcNext ==
    \/ Tick
    \/ \E t \in Threads : StartAppend(t)
    \/ \E t \in Threads : Lock(t)
    \/ \E t \in Threads : MkdirAll(t)
    \/ \E t \in Threads : OpenFile(t)
    \/ \E t \in Threads : WriteJSON(t)
    \/ \E t \in Threads : WriteNewline(t)

SpecConc == ConcInit /\ [][ConcNext]_vars

(***************************************************************************)
(* Concurrent callers under fair scheduling: each thread makes             *)
(* CallsPerThread calls, each an AppendRegister or a GetLedgerPath         *)
(* (SetLedgerPath has the same shape: Lock, deferred Unlock, one access of *)
(* ledgerPath).                                                            *)
(***************************************************************************)
\* thread t calls GetLedgerPath
StartGetLedgerPath(t) ==
    /\ tpc[t] = "idle"
    /\ Len(tret[t]) < CallsPerThread
    /\ tpc' = [tpc EXCEPT ![t] = "pathlock"]
    /\ UNCHANGED <<lvars, svars, ledgerMutex, tentry, tret, mvars, ovars>>

\* ledgerMutex.Lock() of GetLedgerPath
GetLedgerPathLock(t) ==
    /\ tpc[t] = "pathlock"
    /\ ledgerMutex = 0
    /\ ledgerMutex' = t
    /\ tpc' = [tpc EXCEPT ![t] = "pathreturn"]
    /\ UNCHANGED <<lvars, svars, tentry, tret, mvars, ovars>>

\* return ledgerPath; the deferred Unlock runs
GetLedgerPathReturn(t) ==
    /\ tpc[t] = "pathreturn"
    /\ ledgerMutex' = 0
    /\ Returns(t, ErrNil)
    /\ UNCHANGED <<lvars, svars, mvars, ovars>>

LiveNext ==
    \/ \E t \in Threads : StartAppend(t)
    \/ \E t \in Threads : StartGetLedgerPath(t)
    \/ \E t \in Threads : Lock(t)
    \/ \E t \in Threads : MkdirAll(t)
    \/ \E t \in Threads : OpenFile(t)
    \/ \E t \in Threads : WriteJSON(t)
    \/ \E t \in Threads : WriteNewline(t)
    \/ \E t \in Threads : GetLedgerPathLock(t)
    \/ \E t \in Threads : GetLedgerPathReturn(t)

\* a thread that holds the mutex is scheduled
Proceeds(t) ==
    MkdirAll(t) \/ OpenFile(t) \/ WriteJSON(t) \/ WriteNewline(t) \/ GetLedgerPathReturn(t)

\* a thread waiting in ledgerMutex.Lock() gets the mutex
Acquires(t) == Lock(t) \/ GetLedgerPathLock(t)

\* the Go scheduler runs every runnable goroutine, and sync.Mutex hands the
\* mutex to a starving waiter
SpecLive ==
    /\ ConcInit
    /\ [][LiveNext]_vars
    /\ \A t \in Threads : WF_vars(Proceeds(t)) /\ SF_vars(Acquires(t))

(***************************************************************************)
(* Concurrent sealers: each thread makes CallsPerThread calls, each an     *)
(* AppendRegister or an AppendSeal whose manifest is stamped with the      *)
(* current time; the ledger may already hold one register record.          *)
(* AppendSeal is taken one statement at a time: its two scans run before   *)
(* appendEntry takes the mutex.                                            *)
(***************************************************************************)
\* AppendSeal up to the first scan: the manifest is validated
StartAppendSeal(t) ==
    /\ tpc[t] = "idle"
    /\ Len(tret[t]) < CallsPerThread
    /\ LET manifest == Manifest(LeafHash(1), Sig128, LeafHash(1), FormatTime(now))
       IN IF ~hex64Pattern(manifest.merkle_root) \/ ~hex128Pattern(manifest.signature)
             \/ ~hex64Pattern(manifest.public_key)
          THEN Returns(t, ErrInvalidHex)
          ELSE IF ParseTime(manifest.timestamp).failed
               THEN Returns(t, ErrInvalidTimestamp)
          ELSE /\ tentry' = [tentry EXCEPT ![t] = [manifest |-> manifest,
                                                   lastSealTS |-> ZeroTime]]
               /\ tpc' = [tpc EXCEPT ![t] = "sealpath1"]
               /\ UNCHANGED tret
    /\ UNCHANGED <<lvars, svars, ledgerMutex, mvars, ovars>>

\* path := GetLedgerPath() at the head of getLastSealTimestamp and of
\* ListRegistersSince: the mutex is taken and released
SealGetLedgerPath(t) ==
    /\ tpc[t] \in {"sealpath1", "sealpath2"}
    /\ ledgerMutex = 0
    /\ tpc' = [tpc EXCEPT ![t] = IF tpc[t] = "sealpath1" THEN "sealscan1" ELSE "sealscan2"]
    /\ UNCHANGED <<lvars, svars, ledgerMutex, tentry, tret, mvars, ovars>>

\* os.Open of a scan fails
ScanFails(t) ==
    /\ exists
    /\ faults < MaxFaults
    /\ faults' = faults + 1
    /\ Returns(t, ErrLedgerIO)

\* lastSealTS, err := getLastSealTimestamp()
SealScanLastSeal(t) ==
    /\ tpc[t] = "sealscan1"
    /\ \/ ScanFails(t)
       \/ /\ LET r == getLastSealTimestamp(file, exists, FALSE)
             IN IF r.err # ErrNil
                THEN Returns(t, r.err)
                ELSE /\ tentry' = [tentry EXCEPT ![t].lastSealTS = r.ts]
                     /\ tpc' = [tpc EXCEPT ![t] = "sealpath2"]
                     /\ UNCHANGED tret
          /\ UNCHANGED faults
    /\ UNCHANGED <<file, exists, now, svars, ledgerMutex, mvars, ovars>>

\* registers, err := ListRegistersSince(lastSealTS), the check of
\* len(registers) and the SealEntry handed to appendEntry
SealScanRegisters(t) ==
    /\ tpc[t] = "sealscan2"
    /\ \/ ScanFails(t)
       \/ /\ LET r == ListRegistersSinceOf(file, exists, tentry[t].lastSealTS, FALSE)
             IN IF r.err # ErrNil
                THEN Returns(t, r.err)
                ELSE IF Len(r.registers) = 0
                     THEN Returns(t, ErrNoRegistrations)
                ELSE /\ tentry' = [tentry EXCEPT ![t] = SealEntry(tentry[t].manifest)]
                     /\ tpc' = [tpc EXCEPT ![t] = "lock"]
                     /\ UNCHANGED tret
          /\ UNCHANGED faults
    /\ UNCHANGED <<file, exists, now, svars, ledgerMutex, mvars, ovars>>

\* the ledger is empty or holds one register record waiting to be sealed
SealRaceInit ==
    /\ MerkleOff
    /\ SignOff /\ PolicyOff /\ BrowserOff
    /\ \/ file = <<>> /\ exists = FALSE
       \/ file = <<JSONBytes(RegisterEntry(1, LeafHash(1), <<>>)), LF>> /\ exists = TRUE
    /\ now = 1 /\ faults = 0
    /\ calls = 0 /\ last = NoCall
    /\ ledgerMutex = 0
    /\ tpc = [t \in Threads |-> "idle"]
    /\ tentry = [t \in Threads |-> <<>>]
    /\ tret = [t \in Threads |-> <<>>]

SealRaceNext ==
    \/ Tick
    \/ \E t \in Threads : StartAppend(t)
    \/ \E t \in Threads : StartAppendSeal(t)
    \/ \E t \in Threads : SealGetLedgerPath(t)
    \/ \E t \in Threads : SealScanLastSeal(t)
    \/ \E t \in Threads : SealScanRegisters(t)
    \/ \E t \in Threads : Lock(t)
    \/ \E t \in Threads : MkdirAll(t)
    \/ \E t \in Threads : OpenFile(t)
    \/ \E t \in Threads : WriteJSON(t)
    \/ \E t \in Threads : WriteNewline(t)

SpecSealRace == SealRaceInit /\ [][SealRaceNext]_vars

(***************************************************************************)
(* A sign / verify experiment on package sign                              *)
(***************************************************************************)
SignHashInputs == LeafVals \cup {Upper(LeafHash(1)), BadHex}
SeedInputs == {Seed(k) : k \in 1..NumSeeds} \cup {Upper(Seed(1)), BadHex}

\* signatures a caller presents besides the one just made: a genuine one, the
\* same in upper case, a 128-character string that is no signature, a
\* 64-character string and a string that is not hex
SigInputs ==
    {SignHashHex(LeafHash(1), Seed(1)).sig, Upper(SignHashHex(LeafHash(1), Seed(1)).sig),
     Sig128, LeafHash(1), BadHex}

PubInputs ==
    {SignHashHex(LeafHash(1), Seed(k)).pub : k \in 1..NumSeeds}
    \cup {Upper(SignHashHex(LeafHash(1), Seed(1)).pub), Sig128, BadHex}

SignInit ==
    /\ MerkleOff /\ LedgerOff /\ PolicyOff /\ BrowserOff
    /\ sHash \in SignHashInputs
    /\ sSeed \in SeedInputs
    /\ signed = Signed(EmptyString, EmptyString, ErrNil)
    /\ kHash = EmptyString /\ kSig = EmptyString /\ kPub = EmptyString
    /\ checked = Verdict(FALSE, ErrNil)
    /\ spc = "start"
    /\ derived = <<>>

\* sig, pub, err := SignHashHex(hash, seed)
DoSignHashHex ==
    /\ spc = "start"
    /\ signed' = SignHashHex(sHash, sSeed)
    /\ spc' = "signed"
    /\ UNCHANGED <<sHash, sSeed, kHash, kSig, kPub, checked, derived>>
    /\ UNCHANGED <<mvars, lvars, svars, cvars, pvars, bvars>>

\* ok, err := VerifyHashHex(hash', sig', pub')
DoVerifyHashHex ==
    /\ spc = "signed"
    /\ \E h \in SignHashInputs, g \in SigInputs \cup {signed.sig},
          k \in PubInputs \cup {signed.pub} :
          /\ kHash' = h /\ kSig' = g /\ kPub' = k
          /\ checked' = VerifyHashHex(h, g, k)
    /\ spc' = "checked"
    /\ UNCHANGED <<sHash, sSeed, signed, derived>>
    /\ UNCHANGED <<mvars, lvars, svars, cvars, pvars, bvars>>

SignNext ==
    \/ DoSignHashHex
    \/ DoVerifyHashHex

SpecSign == SignInit /\ [][SignNext]_vars

(***************************************************************************)
(* Key derivation next to signing: the caller derives the key pair of the  *)
(* seed twice and signs with the same seed.  Package sign holds two        *)
(* definitions of DeriveKeyPairFromSeedHex (derive.go and part_011); a     *)
(* build links one of them, the same for every call.                       *)
(***************************************************************************)
DeriveFiles == {"derive.go", "part_011"}

\* pub, priv, err := DeriveKeyPairFromSeedHex(seed)
DoDeriveKeyPairFromSeedHex ==
    /\ spc \in {"start", "signed"}
    /\ Len(derived) < 2
    /\ \E f \in DeriveFiles :
          /\ Len(derived) > 0 => f = derived[1].linked
          /\ derived' = Append(derived,
                   [linked |-> f,
                    ret |-> IF f = "derive.go" THEN DeriveKeyPairFromSeedHex(sSeed)
                            ELSE DeriveKeyPairFromSeedHexValidated(sSeed)])
    /\ UNCHANGED <<sHash, sSeed, signed, kHash, kSig, kPub, checked, spc>>
    /\ UNCHANGED <<mvars, lvars, svars, cvars, pvars, bvars>>

DeriveNext ==
    \/ DoSignHashHex
    \/ DoDeriveKeyPairFromSeedHex

SpecDerive == SignInit /\ [][DeriveNext]_vars

(***************************************************************************)
(* A validation of a loaded policy                                         *)
(***************************************************************************)
PolicyInputs ==
    {RotationPolicy(alg, allowed, sep, minDepth, maxDepth, interval, idFormat, prev, strict) :
        alg \in {"sha256", "sha512"},
        allowed \in {<<>>, <<"sha256">>, <<"sha512">>, <<"sha512", "sha256">>},
        sep \in {"RVA_NODE:v1", "RVA_NODE:v2"},
        minDepth \in {0, 1, 65},
        maxDepth \in {0, 64, 65},
        interval \in {3600, 86399, 86400, 86401},
        idFormat \in {"numeric_ascending", "uuid"},
        prev \in BOOLEAN,
        strict \in BOOLEAN}

PolicyInit ==
    /\ MerkleOff /\ LedgerOff /\ SignOff /\ BrowserOff
    /\ policy \in PolicyInputs
    /\ audit = ErrNil
    /\ ppc = "start"
    /\ RotateOff

\* err := policy.ValidateInvariants(pol)
DoValidateInvariants ==
    /\ ppc = "start"
    /\ audit' = ValidateInvariants(policy)
    /\ ppc' = "validated"
    /\ UNCHANGED <<policy, policyFile, stderr, exitCode>>
    /\ UNCHANGED <<mvars, lvars, svars, cvars, gvars, bvars>>

PolicyNext == DoValidateInvariants

SpecPolicy == PolicyInit /\ [][PolicyNext]_vars

(***************************************************************************)
(* The rva-rotate command next to a caller of package ledger               *)
(***************************************************************************)
\* a policy that satisfies every invariant, and one whose interval is an hour
GoodPolicy ==
    RotationPolicy("sha256", <<"sha256">>, "RVA_NODE:v1", 1, 64, 86400,
                   "numeric_ascending", TRUE, TRUE)
HourlyPolicy == [GoodPolicy EXCEPT !.Epochs.IntervalSeconds = 3600]

PolicyFiles ==
    {<<"missing">>, <<"text">>, <<"json", "", GoodPolicy>>,
     <<"json", "1.0", GoodPolicy>>, <<"json", "1.0", HourlyPolicy>>}

\* log.Fatalf: the line is logged and the process exits with status 1
Fatalf ==
    /\ stderr' = Append(stderr, LogAuditFail)
    /\ exitCode' = 1
    /\ ppc' = "exited"

\* pol, err := policy.LoadPolicy(policyPath)
RotateLoadPolicy ==
    /\ ppc = "main"
    /\ LET r == LoadPolicy(policyFile)
       IN /\ audit' = r.err
          /\ IF r.err # ErrNil
             THEN Fatalf /\ UNCHANGED policy
             ELSE /\ policy' = r.pol
                  /\ ppc' = "loaded"
                  /\ UNCHANGED <<stderr, exitCode>>
    /\ UNCHANGED <<policyFile, mvars, lvars, svars, cvars, gvars, bvars>>

\* err := policy.ValidateInvariants(pol)
RotateValidateInvariants ==
    /\ ppc = "loaded"
    /\ audit' = ValidateInvariants(policy)
    /\ IF audit' # ErrNil
       THEN Fatalf
       ELSE ppc' = "checked" /\ UNCHANGED <<stderr, exitCode>>
    /\ UNCHANGED <<policy, policyFile, mvars, lvars, svars, cvars, gvars, bvars>>

\* the verdict is logged and main returns
RotateVerdict ==
    /\ ppc = "checked"
    /\ stderr' = Append(stderr, LogVerdict)
    /\ exitCode' = 0
    /\ ppc' = "exited"
    /\ UNCHANGED <<policy, audit, policyFile, mvars, lvars, svars, cvars, gvars, bvars>>

GovInit ==
    /\ MerkleOff /\ LedgerOff /\ SignOff /\ BrowserOff
    /\ policy = NoPolicy
    /\ audit = ErrNil
    /\ ppc = "main"
    /\ policyFile \in PolicyFiles
    /\ stderr = <<>>
    /\ exitCode = -1

GovNext ==
    \/ RotateLoadPolicy
    \/ RotateValidateInvariants
    \/ RotateVerdict
    \/ AppendRegister
    \/ AppendSeal

SpecGov == GovInit /\ [][GovNext]_vars

(***************************************************************************)
(* A certificate pasted into the browser-side verifier                     *)
(***************************************************************************)
StepInputs ==
    {MerkleStep(sib, dir) : sib \in {LeafHash(2), Upper(LeafHash(2)), BadHex},
                            dir \in {"left", "right", "up"}}

\* the proofs of at most n steps
ProofInputs(n) == UNION {[1..k -> StepInputs] : k \in 0..n}

\* expected roots: the root the proof leads to (when it leads to one), the
\* same in upper case, another digest and a string that is not hex
RootInputs(doc, proof) ==
    LET r == verifyMerkleProof(doc, proof, LeafHash(1))
    IN {LeafHash(1), BadHex}
       \cup (IF r.thrown THEN {} ELSE {r.computedRoot, Upper(r.computedRoot)})

\* signatures: none, the signature of the expected root under Seed(1), and a
\* 128-character string that is no signature
SignatureInputs(root) ==
    {Undefined, Sig128}
    \cup (IF IsHex(root) THEN {SignHashHex(ToLower(root), Seed(1)).sig} ELSE {})

\* the certificates whose proof has at most n steps
Certificates(n) ==
    UNION {UNION {UNION {
        {[document_hash |-> doc, merkle_proof |-> proof, expected_root |-> root,
          signature |-> sig, public_key |-> pub] :
             sig \in SignatureInputs(root),
             pub \in {Undefined, SignHashHex(LeafHash(1), Seed(1)).pub}}
        : root \in RootInputs(doc, proof)}
        : proof \in ProofInputs(n)}
        : doc \in {LeafHash(1), Upper(LeafHash(1)), BadHex}}

BrowserInit ==
    /\ MerkleOff /\ LedgerOff /\ SignOff /\ PolicyOff
    /\ cert \in Certificates(MaxSteps)
    /\ report = Thrown
    /\ opc = "start"

\* the user presses "Execute Integrity Check"
DoHandleVerify ==
    /\ opc = "start"
    /\ report' = handleVerify(cert)
    /\ opc' = "verified"
    /\ UNCHANGED cert
    /\ UNCHANGED <<mvars, lvars, svars, cvars, gvars, pvars>>

BrowserNext == DoHandleVerify

SpecBrowser == BrowserInit /\ [][BrowserNext]_vars

(***************************************************************************)
(* A proof built by package merkle pasted into the browser-side verifier   *)
(***************************************************************************)
\* a proof of package merkle written in the verifier's wire format
RECURSIVE ToSteps(_)
ToSteps(proof) ==
    IF proof = <<>> THEN <<>>
    ELSE <<MerkleStep(Head(proof).hash, Head(proof).position)>> \o ToSteps(Tail(proof))

BlankCertificate ==
    [document_hash |-> Undefined, merkle_proof |-> <<>>, expected_root |-> Undefined,
     signature |-> Undefined, public_key |-> Undefined]

CrossInit ==
    /\ LedgerOff /\ SignOff /\ PolicyOff
    /\ leaves \in LeafSeqs
    /\ index \in 0..(Len(leaves) - 1)
    /\ built = BuildProof(<<>>, 0)
    /\ vLeaf = BadHex /\ vIndex = 0 /\ vTotal = 0 /\ vProof = <<>> /\ vRoot = BadHex
    /\ edits = 0 /\ verdict = Verdict(FALSE, ErrNil) /\ mpc = "start"
    /\ cert = BlankCertificate
    /\ report = Thrown
    /\ opc = "off"

\* the leaf, the proof of BuildProof and the root of BuildRoot are written
\* into an attestation and pasted into the verifier
PasteAttestation ==
    /\ mpc = "built"
    /\ opc = "off"
    /\ cert' = [BlankCertificate EXCEPT !.document_hash = vLeaf,
                                        !.merkle_proof = ToSteps(vProof),
                                        !.expected_root = vRoot]
    /\ opc' = "start"
    /\ UNCHANGED <<report, mvars, lvars, svars, cvars, gvars, pvars>>

CrossNext ==
    \/ DoBuildProof
    \/ PasteAttestation
    \/ DoHandleVerify

SpecCross == CrossInit /\ [][CrossNext]_vars

(***************************************************************************)
(* A reader of a ledger file found on disk                                 *)
(***************************************************************************)
\* lines a file on disk may hold: records as the writer leaves them, records
\* whose timestamp does not parse, objects whose fields have the wrong
\* types, an object of another kind, text that is not JSON, an empty line
LineInputs ==
    {<<JSONBytes(RegisterEntry(t, LeafHash(1), <<>>))>> : t \in 1..MaxClock}
    \cup {<<JSONBytes(SealEntry(Manifest(LeafHash(1), Sig128, LeafHash(1), FormatTime(1))))>>,
          <<JSONBytes(SealEntry(Manifest(LeafHash(1), Sig128, LeafHash(1), BadTimestamp)))>>,
          <<JSONBytes([RegisterEntry(1, LeafHash(1), <<>>) EXCEPT !.timestamp = BadTimestamp])>>,
          <<JSONBytes([type |-> "register", body |-> "malformed"])>>,
          <<JSONBytes([type |-> "checkpoint", body |-> "malformed"])>>,
          <<CutBytes(RegisterEntry(1, LeafHash(1), <<>>))>>,
          <<>>}

\* the content of a file made of the given lines, each ended by a newline
RECURSIVE FileOf(_)
FileOf(lines) == IF lines = <<>> THEN <<>> ELSE Head(lines) \o <<LF>> \o FileOf(Tail(lines))

\* the files of at most n lines
LedgerFiles(n) == {FileOf(lines) : lines \in UNION {[1..k -> LineInputs] : k \in 0..n}}

ReadInit ==
    /\ MerkleOff /\ SignOff /\ PolicyOff /\ BrowserOff
    /\ ThreadsOff
    /\ file \in LedgerFiles(MaxLines)
    /\ exists \in (IF file = <<>> THEN BOOLEAN ELSE {TRUE})
    /\ now = 1 /\ faults = 0
    /\ calls = 0 /\ last = NoCall

ReadNext == ListRegistersSince

SpecRead == ReadInit /\ [][ReadNext]_vars

(***************************************************************************)
(* Properties of package merkle (checked under SpecMerkle)                 *)
(***************************************************************************)
Pow2(k) == 2 ^ k

\* the least h with 2^h >= n
CeilLog2(n) == CHOOSE h \in 0..n : Pow2(h) >= n /\ \A g \in 0..(h - 1) : Pow2(g) < n

\* number of nodes k levels above a level of n nodes
RECURSIVE LevelSize(_, _)
LevelSize(n, k) == IF k = 0 THEN n ELSE LevelSize((n + 1) \div 2, k - 1)

\* the nodes k levels above the leaves
RECURSIVE LevelNodes(_, _)
LevelNodes(lvs, k) == IF k = 0 THEN lvs ELSE LevelNodes(NextLevel(lvs, 0), k - 1)

\* the hash a verifier holds before step k (1-based) of a proof
RECURSIVE CurrentAt(_, _, _)
CurrentAt(leaf, proof, k) ==
    IF k = 1 THEN leaf
    ELSE LET cur == CurrentAt(leaf, proof, k - 1)
             node == proof[k - 1]
         IN IF node.position = "right" THEN hashPair(cur, node.hash)
            ELSE hashPair(node.hash, cur)

ParityPosition(idx, k) == IF (idx \div Pow2(k - 1)) % 2 = 0 THEN "right" ELSE "left"

SiblingOutOfRange(idx, n, k) ==
    LET ci == idx \div Pow2(k - 1)
        sib == IF ci % 2 = 1 THEN ci - 1 ELSE ci + 1
    IN sib < 0 \/ sib >= LevelSize(n, k - 1)

\* the VerifyProof call has digests in every hash position and a valid index
DigestCall ==
    /\ hashPattern(vLeaf)
    /\ hashPattern(vRoot)
    /\ vTotal >= 1
    /\ vIndex \in 0..(vTotal - 1)

DigestProof == \A k \in 1..Len(vProof) : hashPattern(vProof[k].hash)

\* C6: for every leaf sequence and every index, VerifyProof of the leaf, the
\* index, the length, the proof from BuildProof and the root from BuildRoot
\* returns true without error.
MerkleRoundTrip ==
    (mpc = "verified" /\ edits = 0) => verdict = Verdict(TRUE, ErrNil)

MerkleRoundTripWitness ==
    /\ mpc = "verified" /\ edits = 0
    /\ Len(leaves) = 5 /\ index = 4
    /\ vProof = built.proof /\ Len(vProof) = 3
    /\ verdict.ok

\* C7: BuildProof returns exactly one step per tree level: the proof length
\* is the number of halvings n <- ceil(n/2) that reach 1, which is
\* ceil(log2 n) for n >= 2 and 0 for n = 1.
ProofLengthIsHeight ==
    mpc \in {"built", "verified"} =>
        /\ built.err = ErrNil
        /\ Len(built.proof) = LET n == Len(leaves)
                                  h == CHOOSE j \in 0..n : LevelSize(n, j) = 1
                                         /\ \A g \in 0..(j - 1) : LevelSize(n, g) > 1
                              IN h
        /\ Len(built.proof) = CeilLog2(Len(leaves))

ProofLengthIsHeightWitness ==
    /\ mpc = "built"
    /\ Len(leaves) = 5 /\ index = 4
    /\ Len(built.proof) = 3

SingleLeafRule ==
    /\ (mpc \in {"built", "verified"} /\ Len(leaves) = 1) =>
          /\ BuildRoot(leaves) = [root |-> leaves[1], err |-> ErrNil]
          /\ built = [proof |-> <<>>, root |-> leaves[1], err |-> ErrNil]
    /\ (mpc = "verified" /\ DigestCall /\ vTotal = 1) =>
          /\ verdict.ok <=> (vProof = <<>> /\ vLeaf = vRoot)
          /\ vProof # <<>> => verdict = Verdict(FALSE, ErrInvalidProof)
          /\ (vProof = <<>> /\ vLeaf # vRoot) => verdict = Verdict(FALSE, ErrNil)
          /\ verdict.ok => verdict.err = ErrNil

\* a one-leaf tree whose (empty) proof was extended by one well-formed step
SingleLeafRuleWitness ==
    /\ mpc = "verified"
    /\ Len(leaves) = 1 /\ vTotal = 1 /\ vIndex = 0
    /\ vLeaf = leaves[1] /\ vRoot = leaves[1]
    /\ Len(vProof) = 1 /\ hashPattern(vProof[1].hash)
    /\ verdict = Verdict(FALSE, ErrInvalidProof)

(***************************************************************************)
(* Properties of package ledger                                            *)
(***************************************************************************)
IsRecord(chunk, type) == chunk[1] = "json" /\ chunk[2].type = type

\* every line of f is one complete record followed by its newline
WellFormedFile(f) ==
    /\ Len(f) % 2 = 0
    /\ \A i \in 1..Len(f) : IF i % 2 = 1 THEN f[i][1] = "json" ELSE f[i][1] = "lf"

\* in file order, a register record follows the last seal record (or there
\* is a register record and no seal)
RegisterSinceLastSeal(f) ==
    \E i \in 1..Len(f) :
        /\ IsRecord(f[i], "register")
        /\ \A j \in (i + 1)..Len(f) : ~IsRecord(f[j], "seal")

WellFormedManifest(m) ==
    /\ hex64Pattern(m.merkle_root)
    /\ hex128Pattern(m.signature)
    /\ hex64Pattern(m.public_key)
    /\ ~ParseTime(m.timestamp).failed

IsPrefix(f, g) == Len(f) <= Len(g) /\ SubSeq(g, 1, Len(f)) = f

\* a call of AppendSeal with a well-formed manifest on an intact ledger,
\* with no I/O failure
SealCall ==
    /\ faults = 0
    /\ last.op = "AppendSeal"
    /\ WellFormedManifest(last.arg)
    /\ last.fault = "none"
    /\ WellFormedFile(last.before)

\* C1: when no register record exists since the last seal (or the ledger is
\* empty or missing), AppendSeal with a well-formed manifest returns
\* ErrNoRegistrations and leaves the file as it was.
SealWithoutRegistersRefused ==
    (SealCall /\ ~RegisterSinceLastSeal(last.before))
    => /\ last.err = ErrNoRegistrations
       /\ file = last.before
       /\ exists = last.existed

\* C2: AppendRegister with a valid hash is always accepted, and AppendSeal
\* with a well-formed manifest is accepted if and only if a register record
\* has been appended after the most recent seal record.
LedgerStateMachine ==
    /\ (faults = 0 /\ last.op = "AppendRegister" /\ hex64Pattern(last.arg))
       => last.err = ErrNil
    /\ SealCall => (last.err = ErrNil <=> RegisterSinceLastSeal(last.before))

\* C3: in every reachable ledger file (here: every file reached without any
\* I/O failure), each seal record is preceded by a register record with no
\* other seal record in between.
SealsSeparatedByRegisters ==
    faults = 0 =>
    \A i \in 1..Len(file) :
        IsRecord(file[i], "seal") =>
            \E j \in 1..(i - 1) :
                /\ IsRecord(file[j], "register")
                /\ \A k \in (j + 1)..(i - 1) : ~IsRecord(file[k], "seal")

AllReturned == \A t \in Threads : tpc[t] = "idle" /\ Len(tret[t]) = CallsPerThread

AllSucceeded == \A t \in Threads : \A i \in 1..Len(tret[t]) : tret[t][i] = ErrNil

\* C4: once all N x M concurrent AppendRegister calls have returned (none
\* failed), the file holds exactly N x M lines, each one complete register
\* record followed by its newline, and ListRegistersSince(zero time) returns
\* exactly N x M records.
ConcurrentAppendsIntact ==
    (AllReturned /\ AllSucceeded) =>
        LET lines == ScanLines(file, <<>>)
            listed == ListRegistersSinceOf(file, exists, ZeroTime, FALSE)
        IN /\ Len(lines) = NumThreads * CallsPerThread
           /\ WellFormedFile(file)
           /\ \A i \in 1..Len(lines) : ValidJSON(lines[i]) /\ IsRecord(lines[i][1], "register")
           /\ listed.err = ErrNil
           /\ Len(listed.registers) = NumThreads * CallsPerThread

ConcurrentAppendsIntactWitness ==
    /\ AllReturned /\ AllSucceeded
    /\ NumThreads >= 2
    /\ Len(file) = 2 * NumThreads * CallsPerThread
    /\ ledgerMutex = 0

\* C5: every step of every ledger operation, successful or not, leaves the
\* previous file content as a prefix of the new content.
AppendOnly == [][IsPrefix(file, file')]_vars

AppendOnlyWitness ==
    /\ last.op = "AppendSeal" /\ last.err = ErrNil
    /\ Len(last.before) >= 2
    /\ IsPrefix(last.before, file)
    /\ Len(file) = Len(last.before) + 2

(***************************************************************************)
(* Properties of package sign (checked under SpecSign)                     *)
(***************************************************************************)
WellFormedCheck == hex64Pattern(kHash) /\ hex128Pattern(kSig) /\ hex64Pattern(kPub)

\* C12: for every valid digest d and valid seed s, the signature and public
\* key returned by SignHashHex(d, s) verify over d with (true, nil), and over
\* every other valid digest VerifyHashHex returns
\* (false, ErrVerificationFailed).
SignVerifyRoundTrip ==
    (/\ spc = "checked"
     /\ hex64Pattern(sHash) /\ hex64Pattern(sSeed)
     /\ kSig = signed.sig /\ kPub = signed.pub)
    => /\ signed.err = ErrNil
       /\ hex128Pattern(signed.sig) /\ hex64Pattern(signed.pub)
       /\ kHash = sHash => checked = Verdict(TRUE, ErrNil)
       /\ (hex64Pattern(kHash) /\ kHash # sHash)
              => checked = Verdict(FALSE, ErrVerificationFailed)

SignVerifyRoundTripWitness ==
    /\ spc = "checked"
    /\ sHash = LeafHash(1) /\ sSeed = Seed(1)
    /\ signed.err = ErrNil
    /\ kSig = signed.sig /\ kPub = signed.pub
    /\ kHash = LeafHash(2)
    /\ checked = Verdict(FALSE, ErrVerificationFailed)

\* C13: VerifyHashHex returns ErrVerificationFailed only when digest,
\* signature and public key are all well-formed and the signature does not
\* verify; for a malformed digest, signature or public key it returns false
\* with an error other than ErrVerificationFailed; it never returns true
\* together with an error.
MalformedIsNotMismatch ==
    spc = "checked" =>
        /\ checked.err = ErrVerificationFailed =>
              /\ WellFormedCheck
              /\ ~Verify(DecodeString(kPub).bytes, DecodeString(kHash).bytes,
                         DecodeString(kSig).bytes)
        /\ ~WellFormedCheck =>
              /\ ~checked.ok
              /\ checked.err \notin {ErrNil, ErrVerificationFailed}
        /\ checked.ok => checked.err = ErrNil

\* a genuine signature presented in upper case
MalformedIsNotMismatchWitness ==
    /\ spc = "checked"
    /\ signed.err = ErrNil
    /\ kHash = sHash /\ kPub = signed.pub
    /\ kSig = Upper(signed.sig)
    /\ checked = Verdict(FALSE, ErrInvalidHex)

(***************************************************************************)
(* Properties of package policy (checked under SpecPolicy)                 *)
(***************************************************************************)
AuditFailures ==
    {AuditFailHashAlg, AuditFailAllowedAlgs, AuditFailDomainSeparator, AuditFailDepth,
     AuditFailInterval, AuditFailIDFormat, AuditFailCutover}

\* the nine invariants a production policy has to satisfy together
SatisfiesInvariants(p) ==
    /\ p.Constraints.HashAlg = "sha256"
    /\ \E i \in DOMAIN p.Constraints.AllowedHashAlgs : p.Constraints.AllowedHashAlgs[i] = "sha256"
    /\ p.Constraints.DomainSeparator = "RVA_NODE:v1"
    /\ p.Constraints.MinDepth >= 1
    /\ p.Constraints.MaxDepth <= 64
    /\ p.Epochs.IntervalSeconds >= 86400
    /\ p.Epochs.IDFormat = "numeric_ascending"
    /\ p.Cutover.RequirePrevAnchor
    /\ p.Cutover.StrictMonotonicEpoch

\* C14: ValidateInvariants returns nil if and only if the policy satisfies
\* all nine invariants together, and an AUDIT_FAIL error otherwise; an
\* interval of 3600 seconds fails and one of 86400 seconds passes when the
\* other invariants hold.
PolicyInvariantsGate ==
    ppc = "validated" =>
        /\ audit = ErrNil <=> SatisfiesInvariants(policy)
        /\ audit # ErrNil => audit \in AuditFailures
        /\ policy.Epochs.IntervalSeconds = 3600 => audit \in AuditFailures
        /\ SatisfiesInvariants([policy EXCEPT !.Epochs.IntervalSeconds = 86400])
              => (audit = ErrNil <=> policy.Epochs.IntervalSeconds >= 86400)

\* a policy whose only violation is a one-hour interval
PolicyInvariantsGateWitness ==
    /\ ppc = "validated"
    /\ policy.Epochs.IntervalSeconds = 3600
    /\ SatisfiesInvariants([policy EXCEPT !.Epochs.IntervalSeconds = 86400])
    /\ audit = AuditFailInterval

(***************************************************************************)
(* Properties of the browser-side verifier (checked under SpecBrowser)     *)
(***************************************************************************)
\* the certificate carries a signature that verifies over the 32 bytes of
\* its expected root under the public key it carries
SignatureVerifies(c) ==
    /\ c.signature[1] # "undefined"
    /\ c.public_key[1] # "undefined"
    /\ IsHex(c.expected_root) /\ IsHex(c.signature) /\ IsHex(c.public_key)
    /\ Verify(DecodeString(c.public_key).bytes, DecodeString(c.expected_root).bytes,
              DecodeString(c.signature).bytes)

\* C15: the verifier reports a certificate as valid only if the root
\* recomputed from the leaf and the proof equals the expected root and the
\* signature verifies over the expected root's 32 bytes under the public
\* key; a certificate with a correct proof and a missing or non-verifying
\* signature is never reported valid.
ValidOnlyIfSigned ==
    (opc = "verified" /\ ~report.thrown /\ report.isValid) =>
        /\ report.computedRoot = ToLower(cert.expected_root)
        /\ SignatureVerifies(cert)

\* some digest the certificate carries is not 64 lowercase hex characters
CarriesNonCanonicalHex(c) ==
    \/ ~LowerHex(c.document_hash, 64)
    \/ ~LowerHex(c.expected_root, 64)
    \/ \E k \in 1..Len(c.merkle_proof) : ~LowerHex(c.merkle_proof[k].sibling, 64)

\* C16: every boundary function rejects a hex input that does not match
\* ^[a-f0-9]{64}$; here: the browser-side verifyMerkleProof never accepts a
\* target hash, sibling or expected root holding an uppercase hex digit.
LowercaseOnlyAtBoundary ==
    (opc = "verified" /\ CarriesNonCanonicalHex(cert)) => report.thrown

(***************************************************************************)
(* Properties of ListRegistersSince (checked under SpecRead)               *)
(***************************************************************************)
\* the line is not empty and is not valid JSON, or is an object of a kind
\* other than register and seal with a malformed body, or is a register or
\* seal record whose timestamp does not parse
BadLine(line) ==
    /\ Len(line) > 0
    /\ \/ ~ValidJSON(line)
       \/ /\ ValidJSON(line)
          /\ LET entry == line[1][2]
             IN \/ entry.type \notin {"register", "seal"} /\ "body" \in DOMAIN entry
                \/ /\ entry.type = "register" /\ "timestamp" \in DOMAIN entry
                   /\ ParseTime(entry.timestamp).failed
                \/ /\ entry.type = "seal" /\ "manifest" \in DOMAIN entry
                   /\ ParseTime(entry.manifest.timestamp).failed

HasBadLine(f) == \E k \in 1..Len(ScanLines(f, <<>>)) : BadLine(ScanLines(f, <<>>)[k])

\* a call of ListRegistersSince that met no I/O failure
ListCall == last.op = "ListRegistersSince" /\ last.fault = "none"

\* C17: for a ledger file holding, at any position, a non-empty line that is
\* not valid JSON, a record of unknown kind with a malformed body, or a
\* register or seal record whose timestamp does not parse,
\* ListRegistersSince returns ErrLedgerCorrupt and no records; for a missing
\* file it returns an empty result and no error.
BadLinesSurfaced ==
    ListCall =>
        /\ (last.existed /\ HasBadLine(last.before))
              => (last.err = ErrLedgerCorrupt /\ last.out = <<>>)
        /\ ~last.existed => (last.err = ErrNil /\ last.out = <<>>)

\* every line of f is a register or seal record as the writer leaves it
IntactLedger(f) ==
    \A k \in 1..Len(ScanLines(f, <<>>)) :
        LET line == ScanLines(f, <<>>)[k]
        IN /\ ValidJSON(line)
           /\ \/ /\ line[1][2].type = "register" /\ "timestamp" \in DOMAIN line[1][2]
                 /\ ~ParseTime(line[1][2].timestamp).failed
              \/ /\ line[1][2].type = "seal" /\ "manifest" \in DOMAIN line[1][2]
                 /\ ~ParseTime(line[1][2].manifest.timestamp).failed

\* the register records of f stamped after ts, in file order
RECURSIVE RegistersAfter(_, _)
RegistersAfter(f, ts) ==
    IF f = <<>> THEN <<>>
    ELSE IF IsRecord(Head(f), "register") /\ Head(f)[2].timestamp[2] > ts
         THEN <<Head(f)[2]>> \o RegistersAfter(Tail(f), ts)
    ELSE RegistersAfter(Tail(f), ts)

\* C18: on a well-formed ledger ListRegistersSince(ts) returns exactly the
\* register records stamped strictly after ts (one stamped exactly ts is
\* left out), in file order, and never a seal record; on a ledger of k
\* register records and no seal, ListRegistersSince(zero time) returns those
\* k records in file order.
ListsRegistersAfter ==
    (ListCall /\ last.existed /\ IntactLedger(last.before)) =>
        /\ last.err = ErrNil
        /\ last.out = RegistersAfter(last.before, last.arg)
        /\ \A k \in 1..Len(last.out) :
              /\ last.out[k].type = "register"
              /\ ParseTime(last.out[k].timestamp).t > last.arg
        /\ (last.arg = ZeroTime /\ \A j \in 1..Len(last.before) : ~IsRecord(last.before[j], "seal"))
              => last.out = [k \in 1..(Len(last.before) \div 2) |-> last.before[2 * k - 1][2]]

\* register stamped 2, seal, register stamped 1: listing since 1 returns the
\* first record only
ListsRegistersAfterWitness ==
    /\ ListCall /\ last.existed /\ IntactLedger(last.before)
    /\ Len(last.before) = 6
    /\ IsRecord(last.before[1], "register") /\ last.before[1][2].timestamp = FormatTime(2)
    /\ IsRecord(last.before[3], "seal")
    /\ IsRecord(last.before[5], "register") /\ last.before[5][2].timestamp = FormatTime(1)
    /\ last.arg = 1
    /\ last.out = <<last.before[1][2]>>

(***************************************************************************)
(* Validation at the ledger boundary (checked under Spec)                  *)
(***************************************************************************)
Untouched == file = last.before /\ exists = last.existed

\* C19: in every ledger state, AppendRegister with an object hash that does
\* not match ^[a-f0-9]{64}$ returns ErrInvalidHex; AppendSeal with a
\* malformed merkle_root, signature or public_key returns ErrInvalidHex and
\* with an unparseable manifest timestamp ErrInvalidTimestamp, also when no
\* registration exists; in each case the file is left as it was.
ValidationIsFatal ==
    /\ (last.op = "AppendRegister" /\ ~LowerHex(last.arg, 64))
          => (last.err = ErrInvalidHex /\ Untouched)
    /\ (/\ last.op = "AppendSeal"
        /\ \/ ~LowerHex(last.arg.merkle_root, 64)
           \/ ~LowerHex(last.arg.signature, 128)
           \/ ~LowerHex(last.arg.public_key, 64))
          => (last.err = ErrInvalidHex /\ Untouched)
    /\ (/\ last.op = "AppendSeal"
        /\ LowerHex(last.arg.merkle_root, 64)
        /\ LowerHex(last.arg.signature, 128)
        /\ LowerHex(last.arg.public_key, 64)
        /\ last.arg.timestamp[1] # "rfc3339nano")
          => (last.err = ErrInvalidTimestamp /\ Untouched)

\* a seal with an unparseable timestamp offered to a ledger that holds no
\* registration
ValidationIsFatalWitness ==
    /\ last.op = "AppendSeal"
    /\ WellFormedFile(last.before)
    /\ ~RegisterSinceLastSeal(last.before)
    /\ last.arg.timestamp = BadTimestamp
    /\ last.err = ErrInvalidTimestamp
    /\ Untouched

(***************************************************************************)
(* Liveness of the concurrent callers (checked under SpecLive)             *)
(***************************************************************************)
\* the mutex is held only by a thread inside appendEntry or GetLedgerPath
MutexHeldOnlyInside ==
    ledgerMutex # 0 => tpc[ledgerMutex] \in {"mkdir", "open", "write", "newline", "pathreturn"}

\* C20: under fair scheduling every call issued by any of the concurrent
\* threads eventually returns; the ledger mutex is released on every path,
\* the I/O error paths included, so that no call blocks forever.
EveryCallReturns ==
    /\ []MutexHeldOnlyInside
    /\ \A t \in Threads : (tpc[t] # "idle") ~> (tpc[t] = "idle")

\* a call has failed with an I/O error inside appendEntry and another thread
\* has taken the mutex since
EveryCallReturnsWitness ==
    \E t, u \in Threads :
        /\ t # u
        /\ \E k \in 1..Len(tret[t]) : tret[t][k] = ErrLedgerIO
        /\ ledgerMutex = u
        /\ tpc[u] = "newline"

(***************************************************************************)
(* Order of the stamps of concurrent appenders (checked under SpecConc)    *)
(***************************************************************************)
\* the instant a register record carries
StampOf(chunk) == ParseTime(chunk[2].timestamp).t

\* C21: in every ledger file reached by concurrent AppendRegister calls under
\* a wall clock that never goes backwards, the stamps of the register records
\* are non-decreasing in file order within each span between seals: no record
\* is written after a record that carries a later stamp.
RegisterStampsNonDecreasing ==
    \A i, j \in 1..Len(file) :
        (/\ i < j
         /\ IsRecord(file[i], "register")
         /\ IsRecord(file[j], "register")
         /\ \A k \in (i + 1)..(j - 1) : ~IsRecord(file[k], "seal"))
        => StampOf(file[i]) <= StampOf(file[j])

(***************************************************************************)
(* Atomicity of an append (checked under Spec)                             *)
(***************************************************************************)
\* the last call of the sequential caller was an append
AppendCall == last.op \in {"AppendRegister", "AppendSeal"}

\* g is f followed by one complete record and its newline
OneLineAdded(f, g) ==
    /\ Len(g) = Len(f) + 2
    /\ IsPrefix(f, g)
    /\ g[Len(f) + 1][1] = "json"
    /\ g[Len(f) + 2] = LF

\* C22: every call of AppendRegister or AppendSeal either adds exactly one
\* complete record followed by one newline to the file or, when it returns
\* an error (an I/O error of any write step included), leaves the file
\* content as it was; after a call has returned the file never ends in a
\* record without its newline.
AppendAllOrNothing ==
    AppendCall =>
        /\ last.err = ErrNil => OneLineAdded(last.before, file)
        /\ last.err # ErrNil => file = last.before
        /\ file # <<>> => file[Len(file)] = LF

(***************************************************************************)
(* Partial lines met by the readers (checked under Spec)                   *)
(***************************************************************************)
\* the final line of f is not ended by a newline
EndsInPartialLine(f) == f # <<>> /\ f[Len(f)] # LF

\* a call that scans the ledger file and met no I/O failure: a
\* ListRegistersSince, or an AppendSeal whose manifest passed validation
ScanCall ==
    /\ last.fault = "none"
    /\ \/ last.op = "ListRegistersSince"
       \/ last.op = "AppendSeal" /\ WellFormedManifest(last.arg)

\* C23: for a ledger file whose final line is not ended by a newline (a
\* truncated record, or a complete record that lacks its newline),
\* ListRegistersSince and the seal scan of AppendSeal return
\* ErrLedgerCorrupt: the line's record is neither returned nor ignored.
PartialLineSurfaced ==
    (ScanCall /\ last.existed /\ EndsInPartialLine(last.before))
    => (last.err = ErrLedgerCorrupt /\ last.out = <<>> /\ file = last.before)

(***************************************************************************)
(* Governance of seals (checked under SpecGov)                             *)
(***************************************************************************)
\* the rva-rotate command has loaded the policy file and the policy has
\* passed ValidateInvariants
PolicyPassed ==
    /\ ppc \in {"checked", "exited"}
    /\ LoadPolicy(policyFile).err = ErrNil
    /\ ValidateInvariants(LoadPolicy(policyFile).pol) = ErrNil

VerdictEmitted == \E k \in 1..Len(stderr) : stderr[k] = LogVerdict

\* the rva-rotate command emits ALLOW_ROTATION only after LoadPolicy and
\* ValidateInvariants returned nil, and otherwise exits with status 1 and
\* no verdict
VerdictOnlyAfterValidation ==
    /\ VerdictEmitted => (PolicyPassed /\ exitCode = 0)
    /\ (ppc = "exited" /\ ~PolicyPassed) => (exitCode = 1 /\ ~VerdictEmitted)

\* C24: no seal record is appended to the ledger (AppendSeal never returns
\* nil) unless a RotationPolicy has been loaded and has passed
\* ValidateInvariants; and the rva-rotate command emits the ALLOW_ROTATION
\* verdict only after LoadPolicy and ValidateInvariants returned without
\* error, exiting with a non-zero status and no verdict otherwise.
SealsGatedByPolicy ==
    /\ (\E i \in 1..Len(file) : IsRecord(file[i], "seal")) => PolicyPassed
    /\ (last.op = "AppendSeal" /\ last.err = ErrNil) => PolicyPassed
    /\ VerdictOnlyAfterValidation

(***************************************************************************)
(* The two hash-pair rules (checked under SpecCross)                       *)
(***************************************************************************)
\* the verifier has run on the attestation made of the leaf, the proof of
\* BuildProof and the root of BuildRoot
CrossVerified ==
    /\ opc = "verified"
    /\ cert.document_hash = leaves[index + 1]
    /\ cert.merkle_proof = ToSteps(built.proof)
    /\ cert.expected_root = BuildRoot(leaves).root

\* C25 as stated: for every leaf sequence of n >= 1 leaves and every index,
\* the root the domain-separated rule leads to differs from the root of
\* BuildRoot, and the verifier never reports the leaf, proof and root of
\* BuildProof and BuildRoot as valid.
HashPairRulesNeverAgree ==
    CrossVerified =>
        /\ ~report.thrown
        /\ report.computedRoot # BuildRoot(leaves).root
        /\ ~report.isValid

\* C25 as amended: the above holds for every leaf sequence of two or more
\* leaves; for a single leaf neither rule hashes a pair, both roots are the
\* leaf itself and the verifier reports the attestation as valid.
HashPairRulesDiffer ==
    CrossVerified =>
        /\ ~report.thrown
        /\ Len(leaves) >= 2 =>
              /\ report.computedRoot # BuildRoot(leaves).root
              /\ ~report.isValid
        /\ Len(leaves) = 1 =>
              /\ report.computedRoot = BuildRoot(leaves).root
              /\ report.isValid

\* the last leaf of five, whose proof holds its own digest as a sibling
HashPairRulesDifferWitness ==
    /\ CrossVerified
    /\ Len(leaves) = 5 /\ index = 4
    /\ Len(cert.merkle_proof) = 3
    /\ cert.merkle_proof[1] = MerkleStep(leaves[5], "right")
    /\ report.computedRoot[1] = "rva"
    /\ ~report.isValid

(***************************************************************************)
(* Key derivation (checked under SpecDerive)                               *)
(***************************************************************************)
\* C26: DeriveKeyPairFromSeedHex is deterministic and returns the public key
\* (64 lowercase hex) first and the private key (128 lowercase hex) second:
\* for a valid seed two calls return identical results without error, the
\* first result passes ValidatePubKeyHex, the second is 128 characters long,
\* and the first equals the public key SignHashHex returns for that seed.
DeriveReturnsPubThenPriv ==
    hex64Pattern(sSeed) =>
        /\ \A k \in 1..Len(derived) :
              /\ derived[k].ret.err = ErrNil
              /\ ValidatePubKeyHex(derived[k].ret.first) = ErrNil
              /\ HexLength(derived[k].ret.second) = 128
              /\ (spc = "signed" /\ signed.err = ErrNil)
                    => derived[k].ret.first = signed.pub
        /\ Len(derived) = 2 => derived[1] = derived[2]

(***************************************************************************)
(* Atomicity of the seal precondition (checked under SpecSealRace)         *)
(***************************************************************************)
\* between any two seal records of f lies a register record
SealsApart(f) ==
    \A i, j \in 1..Len(f) :
        (i < j /\ IsRecord(f[i], "seal") /\ IsRecord(f[j], "seal"))
        => \E k \in (i + 1)..(j - 1) : IsRecord(f[k], "register")

\* C27: the check of the seal precondition and the append of the seal are
\* atomic with respect to the other ledger mutations: in every interleaving
\* of concurrent AppendSeal calls (manifests stamped with the current time)
\* and AppendRegister calls without I/O failure, when one batch of registers
\* is pending and two AppendSeal calls race at most one succeeds, so the
\* file never holds two seal records with no register record between them.
SealCheckAndAppendAtomic == faults = 0 => SealsApart(file)


(***************************************************************************)
(* A forger against VerifyProof: the root is BuildRoot's, every other      *)
(* argument of the call is chosen freely                                   *)
(***************************************************************************)
\* every digest of the tree BuildRoot and BuildProof compute over a level:
\* the level itself and the levels above it
RECURSIVE TreeDigests(_)
TreeDigests(currentLevel) ==
    {currentLevel[k] : k \in 1..Len(currentLevel)}
        \cup (IF Len(currentLevel) > 1 THEN TreeDigests(NextLevel(currentLevel, 0)) ELSE {})

\* the digests a forger works with: the leaf digests and every digest of the tree
ForgeHashes(lvs) == LeafVals \cup TreeDigests(lvs)

ForgeSeqs == UNION {[1..n -> LeafVals] : n \in 1..MaxForgeLeaves}

\* the proofs of n nodes over a set of digests
ForgedProofs(hs, n) == [1..n -> {ProofNode(h, p) : h \in hs, p \in {"left", "right"}}]

ForgeInit ==
    /\ LedgerOff
    /\ SignOff /\ PolicyOff /\ BrowserOff
    /\ leaves \in ForgeSeqs
    /\ index = 0
    /\ built = BuildProof(<<>>, 0)
    /\ vLeaf = BadHex /\ vIndex = 0 /\ vTotal = 0 /\ vProof = <<>> /\ vRoot = BadHex
    /\ edits = 0 /\ verdict = Verdict(FALSE, ErrNil) /\ mpc = "start"

\* root := BuildRoot(leaves); the forger prepares VerifyProof(x, i, n, p, root)
\* with a proof of the length line 589 asks for
DoForge ==
    /\ mpc = "start"
    /\ vRoot' = BuildRoot(leaves).root
    /\ \E n \in 1..MaxForgeLeaves :
          /\ vTotal' = n
          /\ vIndex' \in 0..(n - 1)
          /\ vProof' \in ForgedProofs(ForgeHashes(leaves), TreeHeight(n))
    /\ vLeaf' \in ForgeHashes(leaves)
    /\ mpc' = "built"
    /\ UNCHANGED <<leaves, index, built, edits, verdict, lvars, svars, cvars, ovars>>

ForgeNext ==
    \/ DoForge
    \/ DoVerifyProof

SpecForge == ForgeInit /\ [][ForgeNext]_vars

(***************************************************************************)
(* C28  Soundness of VerifyProof with the index bound                      *)
(***************************************************************************)
\* the call VerifyProof(x, i, n, p, BuildRoot(L)) has returned true
ForgeAccepted ==
    /\ mpc = "verified"
    /\ vRoot = BuildRoot(leaves).root
    /\ verdict = Verdict(TRUE, ErrNil)

ProofBindsTotalLeaves == ForgeAccepted => vTotal = Len(leaves)


(***************************************************************************)
(* C30  The depth range of an accepted policy                              *)
(***************************************************************************)
\* C30: every RotationPolicy that ValidateInvariants accepts describes a
\* non-empty Merkle depth range, 1 <= min_depth <= max_depth <= 64; a policy
\* with max_depth < min_depth, max_depth <= 0 or min_depth > 64 is rejected.
AcceptedDepthRangeNonEmpty ==
    (ppc = "validated" /\ audit = ErrNil) =>
        /\ 1 <= policy.Constraints.MinDepth
        /\ policy.Constraints.MinDepth <= policy.Constraints.MaxDepth
        /\ policy.Constraints.MaxDepth <= 64

====
